---- MODULE Spec2Model ----
(***************************************************************************)
(* State-machine model of the PO_Managment backend (src/routes.py).        *)
(*                                                                         *)
(* Every HTTP handler that writes to a collection is one action, taken     *)
(* atomically; every read-only handler is an operator on the current      *)
(* state that yields its response.  The arguments of a handler are the     *)
(* decoded token payload (user), the path parameters and the request body. *)
(* A handler that raises HTTPException(c) answers with code c and writes   *)
(* nothing after the raise; an exception nobody catches (a duplicate _id,  *)
(* a failed audit insert, a TypeError) answers 500 and keeps the writes    *)
(* that were made before it.                                               *)
(*                                                                         *)
(* Documents are functions from field names to values, so that pop and     *)
(* $set/$unset add and remove fields as they do in the source.  Python     *)
(* None is the string "None" for text fields and the empty sequence for    *)
(* timestamps (a timestamp t is <<t>>).                                    *)
(***************************************************************************)
EXTENDS Integers, Sequences, FiniteSets, TLC

VARIABLES
    users_collection,           \* db.users: documents in natural (insertion) order
    users_deleted_collection,   \* db.users_deleted, in natural order
    records_collection,         \* db.records: set of documents, _id unique
    records_deleted_collection, \* db.records_deleted: set of documents, _id unique
    document_links_collection,  \* db.document_links: set of documents
    work_collection,            \* db.work: set of documents, work_id unique
    work_document_collection,   \* db.work_documents: set of documents
    audit_appended,             \* entries the latest request appended to db.audit_logs
    issued,                     \* how many ObjectIds / uuid4s each generator has issued
    now,                        \* the wall clock (datetime.utcnow())
    in_flight,                  \* requests suspended at an await between two store steps
    resp                        \* the latest request and the response it got

vars == <<users_collection, users_deleted_collection, records_collection,
          records_deleted_collection, document_links_collection, work_collection,
          work_document_collection, audit_appended, issued, now, in_flight,
          resp>>

userVars == <<users_collection, users_deleted_collection>>
recordVars == <<records_collection, records_deleted_collection>>
workVars == <<work_collection, work_document_collection>>

(***************************************************************************)
(* Bounds of the model.                                                    *)
(***************************************************************************)
MaxRecords == 2     \* record ObjectIds issued
MaxAccounts == 2    \* account ObjectIds issued
MaxWorks == 2       \* work uuids issued
MaxDocs == 1        \* document uuids issued per document collection
MaxIssued == 3      \* ObjectIds and uuids issued in all during the admin's session
MaxTime == 2        \* clock ticks
MaxMillis == 9      \* milliseconds on the clock of the status computation
MaxDays == 5        \* days on the clock of the TTL purge

NoneStr == "None"

(***************************************************************************)
(* Documents.                                                              *)
(***************************************************************************)
\* dict.pop(k, None) for every k in F
Pop(d, F) == [k \in DOMAIN d \ F |-> d[k]]

\* dict assignment d[k] = v, and the effect of {"$set": u} on a stored document
SetFields(d, u) ==
    [k \in DOMAIN d \cup DOMAIN u |-> IF k \in DOMAIN u THEN u[k] ELSE d[k]]

Min(S) == CHOOSE x \in S : \A y \in S : x <= y

\* a query filter is a document too: a stored document matches it when it has every
\* key of the filter with the filter's value (an array field, when it contains it)
Matches(d, filter) ==
    \A k \in DOMAIN filter :
        /\ k \in DOMAIN d
        /\ IF k = "assigned_staff" THEN filter[k] \in d[k] ELSE d[k] = filter[k]

\* the positions of the documents of collection coll (a sequence) matching the filter
Matching(coll, filter) == {i \in 1..Len(coll) : Matches(coll[i], filter)}

\* find_one on a collection kept in natural order: <<>> (None) or <<document>>
find_one(coll, filter) ==
    IF Matching(coll, filter) = {} THEN <<>>
    ELSE <<coll[Min(Matching(coll, filter))]>>

\* delete_one: removes the first matching document, if any
delete_one(coll, filter) ==
    IF Matching(coll, filter) = {} THEN coll
    ELSE LET i == Min(Matching(coll, filter))
         IN  SubSeq(coll, 1, i - 1) \o SubSeq(coll, i + 1, Len(coll))

\* update_one with {"$set": u}: changes the first matching document, if any
update_one(coll, filter, u) ==
    IF Matching(coll, filter) = {} THEN coll
    ELSE [coll EXCEPT ![Min(Matching(coll, filter))] = SetFields(@, u)]

\* insert_one raises DuplicateKeyError when the _id is already in the collection
DuplicateKey(coll, d) == \E i \in 1..Len(coll) : coll[i]["_id"] = d["_id"]

\* find_one on a collection held as a set, by a filter on a unique key
find_in(coll, filter) ==
    IF \E d \in coll : Matches(d, filter)
    THEN <<CHOOSE d \in coll : Matches(d, filter)>> ELSE <<>>

(***************************************************************************)
(* The request and its response.  pre is the document a delete handler     *)
(* read before it stamped it; a restore handler that directly follows the  *)
(* successful delete of the same id carries it on.                         *)
(***************************************************************************)
Resp(op, user, id, code, pre) ==
    [op |-> op, user |-> user, id |-> id, code |-> code, pre |-> pre]

\* the document read by the delete request this request directly follows
Followed(deleteOp, id) ==
    IF resp.op = deleteOp /\ resp.code = 200 /\ resp.id = id THEN resp.pre ELSE <<>>

(***************************************************************************)
(* audit.py                                                                *)
(***************************************************************************)
\* fault: an audit entry that does not name the actor
log_action_without_actor(audit_ok, action, performed_by, record_id) ==
    audit_appended' =
        IF audit_ok
        THEN <<[action |-> action, performed_by |-> NoneStr,
                record_id |-> record_id, timestamp |-> now]>>
        ELSE <<>>

\* audit_ok = FALSE: audit_logs_collection.insert_one raises
log_action(audit_ok, action, performed_by, record_id) ==
    audit_appended' =
        IF audit_ok
        THEN <<[action |-> action, performed_by |-> performed_by,
                record_id |-> record_id, timestamp |-> now]>>
        ELSE <<>>

no_log == audit_appended' = <<>>

(***************************************************************************)
(* Records.  A record document carries staff_id, pr_po_no, approval_rs,    *)
(* utilization_rs and description (standing for the text fields that       *)
(* record.dict() copies unread: indenter_name, item_material,              *)
(* project_head, purpose, document links, created_at).                     *)
(***************************************************************************)
create_record(user, record, audit_ok) ==
    LET approval == record.approval_rs
        utilization == record.utilization_rs
        remaining == approval - utilization
        inserted_id == issued.records + 1
        new_record == SetFields(record, [total |-> approval, remaining |-> remaining,
                                         _id |-> inserted_id])
    IN  /\ records_collection' = records_collection \cup {new_record}
        /\ issued' = [issued EXCEPT !.records = inserted_id]
        /\ log_action(audit_ok, "CREATE", user.staff_id, inserted_id)
        /\ resp' = Resp("create_record", user, inserted_id,
                        IF audit_ok THEN 200 ELSE 500, <<>>)
        /\ UNCHANGED <<userVars, records_deleted_collection, document_links_collection,
                       workVars, now, in_flight>>

\* GET /records: the response and the _ids of the records it lists
get_records(user) ==
    [code |-> 200,
     out |-> IF user.role = "admin"
             THEN {r["_id"] : r \in records_collection}
             ELSE {r["_id"] : r \in {x \in records_collection :
                                         x.staff_id = user.staff_id}}]

update_record(user, record_id, record, audit_ok) ==
    LET approval == record.approval_rs
        utilization == record.utilization_rs
        remaining == approval - utilization
        update_data == SetFields(record, [remaining |-> remaining])
    IN  /\ records_collection' =
              {IF r["_id"] = record_id THEN SetFields(r, update_data) ELSE r :
                   r \in records_collection}
        /\ log_action(audit_ok, "UPDATE", user.staff_id, record_id)
        /\ resp' = Resp("update_record", user, record_id,
                        IF audit_ok THEN 200 ELSE 500, <<>>)
        /\ UNCHANGED <<userVars, records_deleted_collection, document_links_collection,
                       workVars, issued, now, in_flight>>

\* the answer of the role checks of delete_record and restore_record
record_owner_check(user, record) ==
    IF user.role = "admin" THEN 200
    ELSE IF user.role = "staff"
         THEN (IF record.staff_id # user.staff_id THEN 403 ELSE 200)
         ELSE 403

\* the deletion metadata delete_record adds to the record it read
record_deletion_stamp(record, user) ==
    SetFields(record, [deleted_at |-> <<now>>, deleted_by |-> user.staff_id,
                       original_id |-> record["_id"]])

\* fault: a restore that pops the dates and keeps original_id
record_keeping_original_id(deleted_record) ==
    Pop(deleted_record, {"deleted_at", "deleted_by"})

\* restore_record pops the deletion metadata
record_without_stamp(deleted_record) ==
    Pop(deleted_record, {"deleted_at", "deleted_by", "original_id"})

delete_record(user, record_id, audit_ok) ==
    LET found == find_in(records_collection, [_id |-> record_id])
    IN  IF found = <<>>
        THEN /\ resp' = Resp("delete_record", user, record_id, 404, <<>>)
             /\ no_log
             /\ UNCHANGED <<userVars, recordVars, document_links_collection,
                            workVars, issued, now, in_flight>>
        ELSE
        LET record == found[1]
            stamped == record_deletion_stamp(record, user)
        IN  IF record_owner_check(user, record) # 200
            THEN /\ resp' = Resp("delete_record", user, record_id,
                                 record_owner_check(user, record), <<>>)
                 /\ no_log
                 /\ UNCHANGED <<userVars, recordVars, document_links_collection,
                                workVars, issued, now, in_flight>>
            ELSE IF \E d \in records_deleted_collection : d["_id"] = stamped["_id"]
            THEN \* insert_one raises DuplicateKeyError
                 /\ resp' = Resp("delete_record", user, record_id, 500, <<>>)
                 /\ no_log
                 /\ UNCHANGED <<userVars, recordVars, document_links_collection,
                                workVars, issued, now, in_flight>>
            ELSE /\ records_deleted_collection' = records_deleted_collection \cup {stamped}
                 /\ records_collection' =
                        {r \in records_collection : r["_id"] # record_id}
                 /\ log_action(audit_ok, "DELETE", user.staff_id, record_id)
                 /\ resp' = Resp("delete_record", user, record_id,
                                 IF audit_ok THEN 200 ELSE 500, <<record>>)
                 /\ UNCHANGED <<userVars, document_links_collection, workVars,
                                issued, now, in_flight>>

\* GET /records/deleted
view_my_deleted_records(user) ==
    [code |-> 200,
     out |-> IF user.role = "admin"
             THEN {r["_id"] : r \in records_deleted_collection}
             ELSE {r["_id"] : r \in {x \in records_deleted_collection :
                                         x.staff_id = user.staff_id}}]

\* GET /admin/deleted/records
view_deleted_records(user) ==
    IF user.role # "admin" THEN [code |-> 403, out |-> {}]
    ELSE [code |-> 200, out |-> {r["_id"] : r \in records_deleted_collection}]

restore_record(user, record_id, audit_ok) ==
    LET found == find_in(records_deleted_collection,
                         [original_id |-> record_id])
    IN  IF found = <<>>
        THEN /\ resp' = Resp("restore_record", user, record_id, 404, <<>>)
             /\ no_log
             /\ UNCHANGED <<userVars, recordVars, document_links_collection,
                            workVars, issued, now, in_flight>>
        ELSE
        LET deleted_record == found[1]
            restored == record_without_stamp(deleted_record)
        IN  IF record_owner_check(user, deleted_record) # 200
            THEN /\ resp' = Resp("restore_record", user, record_id,
                                 record_owner_check(user, deleted_record), <<>>)
                 /\ no_log
                 /\ UNCHANGED <<userVars, recordVars, document_links_collection,
                                workVars, issued, now, in_flight>>
            ELSE IF \E d \in records_collection : d["_id"] = restored["_id"]
            THEN \* insert_one raises DuplicateKeyError
                 /\ resp' = Resp("restore_record", user, record_id, 500, <<>>)
                 /\ no_log
                 /\ UNCHANGED <<userVars, recordVars, document_links_collection,
                                workVars, issued, now, in_flight>>
            ELSE /\ records_collection' = records_collection \cup {restored}
                 /\ records_deleted_collection' =
                        {r \in records_deleted_collection : r.original_id # record_id}
                 /\ log_action(audit_ok, "RESTORE", user.staff_id, record_id)
                 /\ resp' = Resp("restore_record", user, record_id,
                                 IF audit_ok THEN 200 ELSE 500,
                                 Followed("delete_record", record_id))
                 /\ UNCHANGED <<userVars, document_links_collection, workVars,
                                issued, now, in_flight>>

\* fault: a store without the unique index on _id
DuplicateId_unchecked(coll, d) == FALSE

\* insert_one raises DuplicateKeyError when the store holds the _id of d
DuplicateId(coll, d) == \E x \in coll : x["_id"] = d["_id"]

\* delete_record up to the await of its find_one (line 245): a request that is
\* not answered 404 or 403 is in flight with the record it read and stamped
delete_record_find(user, record_id) ==
    LET found == find_in(records_collection, [_id |-> record_id])
        code == IF found = <<>> THEN 404 ELSE record_owner_check(user, found[1])
    IN  /\ IF code # 200
           THEN /\ resp' = Resp("delete_record", user, record_id, code, <<>>)
                /\ UNCHANGED in_flight
           ELSE /\ in_flight' = in_flight \cup
                       {[op |-> "delete_record", user |-> user, record_id |-> record_id,
                         document |-> record_deletion_stamp(found[1], user),
                         awaits |-> "insert_one"]}
                /\ UNCHANGED resp
        /\ no_log
        /\ UNCHANGED <<userVars, recordVars, document_links_collection, workVars,
                       issued, now>>

\* the next store step of a delete_record in flight: the insert_one of line 274,
\* then the delete_one of line 277 with the log_action that follows it
delete_record_step(request, audit_ok) ==
    /\ request \in in_flight
    /\ request.op = "delete_record"
    /\ IF request.awaits = "insert_one"
       THEN IF DuplicateId(records_deleted_collection, request.document)
            THEN /\ in_flight' = in_flight \ {request}
                 /\ resp' = Resp("delete_record", request.user, request.record_id, 500,
                                 <<>>)
                 /\ UNCHANGED recordVars
            ELSE /\ records_deleted_collection' =
                        records_deleted_collection \cup {request.document}
                 /\ in_flight' = (in_flight \ {request})
                                     \cup {[request EXCEPT !.awaits = "delete_one"]}
                 /\ UNCHANGED <<records_collection, resp>>
       ELSE /\ records_collection' =
                   {r \in records_collection : r["_id"] # request.record_id}
            /\ in_flight' = in_flight \ {request}
            /\ resp' = Resp("delete_record", request.user, request.record_id,
                            IF audit_ok THEN 200 ELSE 500, <<>>)
            /\ UNCHANGED records_deleted_collection
    /\ IF request.awaits = "delete_one"
       THEN log_action(audit_ok, "DELETE", request.user.staff_id, request.record_id)
       ELSE no_log
    /\ UNCHANGED <<userVars, document_links_collection, workVars, issued, now>>

\* restore_record up to the await of its find_one (lines 339-341)
restore_record_find(user, record_id) ==
    LET found == find_in(records_deleted_collection, [original_id |-> record_id])
        code == IF found = <<>> THEN 404 ELSE record_owner_check(user, found[1])
    IN  /\ IF code # 200
           THEN /\ resp' = Resp("restore_record", user, record_id, code, <<>>)
                /\ UNCHANGED in_flight
           ELSE /\ in_flight' = in_flight \cup
                       {[op |-> "restore_record", user |-> user, record_id |-> record_id,
                         document |-> record_without_stamp(found[1]),
                         awaits |-> "insert_one"]}
                /\ UNCHANGED resp
        /\ no_log
        /\ UNCHANGED <<userVars, recordVars, document_links_collection, workVars,
                       issued, now>>

\* the next store step of a restore_record in flight: the insert_one of line 364,
\* then the delete_one of lines 367-369 with the log_action that follows it
restore_record_step(request, audit_ok) ==
    /\ request \in in_flight
    /\ request.op = "restore_record"
    /\ IF request.awaits = "insert_one"
       THEN IF DuplicateId(records_collection, request.document)
            THEN /\ in_flight' = in_flight \ {request}
                 /\ resp' = Resp("restore_record", request.user, request.record_id, 500,
                                 <<>>)
                 /\ UNCHANGED recordVars
            ELSE /\ records_collection' = records_collection \cup {request.document}
                 /\ in_flight' = (in_flight \ {request})
                                     \cup {[request EXCEPT !.awaits = "delete_one"]}
                 /\ UNCHANGED <<records_deleted_collection, resp>>
       ELSE /\ records_deleted_collection' =
                   {r \in records_deleted_collection :
                        r.original_id # request.record_id}
            /\ in_flight' = in_flight \ {request}
            /\ resp' = Resp("restore_record", request.user, request.record_id,
                            IF audit_ok THEN 200 ELSE 500, <<>>)
            /\ UNCHANGED records_collection
    /\ IF request.awaits = "delete_one"
       THEN log_action(audit_ok, "RESTORE", request.user.staff_id, request.record_id)
       ELSE no_log
    /\ UNCHANGED <<userVars, document_links_collection, workVars, issued, now>>

(***************************************************************************)
(* auth.py.  bcrypt is an opaque salted hash: hash_password(p) is a value  *)
(* that verify_password accepts for p and for no other password.           *)
(***************************************************************************)
hash_password(password) == <<"bcrypt", password>>

verify_password(password, hashed) == hashed = <<"bcrypt", password>>

\* POST /login/admin: the answer to the admin's password
admin_login(data) ==
    LET admin == find_one(users_collection, [role |-> "admin"])
    IN  IF admin = <<>> THEN 404
        ELSE IF ~verify_password(data.password, admin[1].password_hash) THEN 401
        ELSE 200

\* POST /login/staff: the answer and the payload of the token issued
staff_login(data) ==
    LET staff == find_one(users_collection, [staff_id |-> data.staff_id])
    IN  IF staff = <<>> THEN [code |-> 404, token |-> <<>>]
        ELSE IF ~verify_password(data.password, staff[1].password_hash)
        THEN [code |-> 401, token |-> <<>>]
        ELSE [code |-> 200, token |-> <<[role |-> "staff", staff_id |-> data.staff_id]>>]

\* POST /login/project-associate
project_associate_login(data) ==
    LET associate == find_one(users_collection,
                              [staff_id |-> data.staff_id, role |-> "project_associate",
                               is_active |-> TRUE])
    IN  IF associate = <<>> THEN [code |-> 404, token |-> <<>>]
        ELSE IF ~verify_password(data.password, associate[1].password_hash)
        THEN [code |-> 401, token |-> <<>>]
        ELSE [code |-> 200,
              token |-> <<[role |-> "project_associate",
                           staff_id |-> associate[1].staff_id]>>]

(***************************************************************************)
(* Staff accounts.                                                         *)
(***************************************************************************)
\* GET /admin/staffs: the _ids of the accounts listed
get_all_staff(user) ==
    IF user.role # "admin" THEN [code |-> 403, out |-> {}]
    ELSE [code |-> 200,
          out |-> {users_collection[i]["_id"] :
                       i \in Matching(users_collection, [role |-> "staff"])}]

create_staff(user, data) ==
    IF user.role # "admin"
    THEN /\ resp' = Resp("create_staff", user, data.staff_id, 403, <<>>)
         /\ no_log
         /\ UNCHANGED <<userVars, recordVars, document_links_collection, workVars,
                        issued, now, in_flight>>
    ELSE LET new_staff == [_id |-> issued.users + 1,
                           staff_id |-> data.staff_id,
                           name |-> data.name,
                           password_hash |-> hash_password(data.password),
                           role |-> "staff",
                           is_active |-> TRUE]
         IN  /\ users_collection' = Append(users_collection, new_staff)
             /\ issued' = [issued EXCEPT !.users = @ + 1]
             /\ resp' = Resp("create_staff", user, data.staff_id, 200, <<>>)
             /\ no_log
             /\ UNCHANGED <<users_deleted_collection, recordVars,
                            document_links_collection, workVars, now, in_flight>>

\* the deletion metadata delete_staff adds to the account it read
staff_deletion_stamp(staff, user) ==
    SetFields(staff, [deleted_at |-> <<now>>, deleted_by |-> user.staff_id])

\* restore_staff and restore_project_associate pop the deletion metadata
account_without_stamp(account) == Pop(account, {"deleted_at", "deleted_by"})

delete_staff(user, staff_id) ==
    LET found == find_one(users_collection, [staff_id |-> staff_id])
        code == IF user.role # "admin" THEN 403
                ELSE IF found = <<>> THEN 404
                ELSE IF DuplicateKey(users_deleted_collection, found[1]) THEN 500
                ELSE 200
    IN  IF code # 200
        THEN /\ resp' = Resp("delete_staff", user, staff_id, code, <<>>)
             /\ no_log
             /\ UNCHANGED <<userVars, recordVars, document_links_collection, workVars,
                            issued, now, in_flight>>
        ELSE /\ users_deleted_collection' =
                    Append(users_deleted_collection, staff_deletion_stamp(found[1], user))
             /\ users_collection' =
                    delete_one(users_collection, [staff_id |-> staff_id])
             /\ resp' = Resp("delete_staff", user, staff_id, 200, found)
             /\ no_log
             /\ UNCHANGED <<recordVars, document_links_collection, workVars, issued, now,
                            in_flight>>

\* GET /admin/deleted/staffs
view_deleted_staff(user) ==
    IF user.role # "admin" THEN [code |-> 403, out |-> {}]
    ELSE [code |-> 200,
          out |-> {users_deleted_collection[i]["_id"] :
                       i \in 1..Len(users_deleted_collection)}]

restore_staff(user, staff_id) ==
    LET found == find_one(users_deleted_collection, [staff_id |-> staff_id])
        code == IF user.role # "admin" THEN 403
                ELSE IF found = <<>> THEN 404
                ELSE IF DuplicateKey(users_collection, found[1]) THEN 500
                ELSE 200
    IN  IF code # 200
        THEN /\ resp' = Resp("restore_staff", user, staff_id, code, <<>>)
             /\ no_log
             /\ UNCHANGED <<userVars, recordVars, document_links_collection, workVars,
                            issued, now, in_flight>>
        ELSE /\ users_collection' =
                    Append(users_collection, account_without_stamp(found[1]))
             /\ users_deleted_collection' =
                    delete_one(users_deleted_collection, [staff_id |-> staff_id])
             /\ resp' = Resp("restore_staff", user, staff_id, 200,
                             Followed("delete_staff", staff_id))
             /\ no_log
             /\ UNCHANGED <<recordVars, document_links_collection, workVars, issued, now,
                            in_flight>>

(***************************************************************************)
(* Project associates.                                                     *)
(***************************************************************************)
create_project_associate(user, data) ==
    LET existing == find_one(users_collection, [staff_id |-> data.staff_id])
        code == IF user.role # "admin" THEN 403
                ELSE IF existing # <<>> THEN 400
                ELSE 200
        new_associate == [_id |-> issued.users + 1,
                          staff_id |-> data.staff_id,
                          name |-> data.name,
                          password_hash |-> hash_password(data.password),
                          role |-> "project_associate",
                          is_active |-> TRUE,
                          assigned_staff |-> {},
                          created_at |-> <<now>>]
    IN  IF code # 200
        THEN /\ resp' = Resp("create_project_associate", user, data.staff_id, code, <<>>)
             /\ no_log
             /\ UNCHANGED <<userVars, recordVars, document_links_collection, workVars,
                            issued, now, in_flight>>
        ELSE /\ users_collection' = Append(users_collection, new_associate)
             /\ issued' = [issued EXCEPT !.users = @ + 1]
             /\ resp' = Resp("create_project_associate", user, data.staff_id, 200, <<>>)
             /\ no_log
             /\ UNCHANGED <<users_deleted_collection, recordVars,
                            document_links_collection, workVars, now, in_flight>>

\* the filter {"staff_id": staff_id, "role": "project_associate"}
is_associate(staff_id) == [staff_id |-> staff_id, role |-> "project_associate"]

\* data is data.dict(exclude_unset=True): the fields the request body sets
update_project_associate(user, staff_id, data) ==
    LET associate == find_one(users_collection, is_associate(staff_id))
        code == IF user.role # "admin" THEN 403
                ELSE IF associate = <<>> THEN 404
                ELSE 200
    IN  IF code # 200
        THEN /\ resp' = Resp("update_project_associate", user, staff_id, code, <<>>)
             /\ no_log
             /\ UNCHANGED <<userVars, recordVars, document_links_collection, workVars,
                            issued, now, in_flight>>
        ELSE /\ users_collection' =
                    update_one(users_collection, [staff_id |-> staff_id], data)
             /\ resp' = Resp("update_project_associate", user, staff_id, 200, <<>>)
             /\ no_log
             /\ UNCHANGED <<users_deleted_collection, recordVars,
                            document_links_collection, workVars, issued, now, in_flight>>

\* what delete_project_associate writes on the account before it moves it
associate_deletion_stamp(associate, user) ==
    SetFields(associate, [is_active |-> FALSE, deleted_at |-> <<now>>,
                          deleted_by |-> user.staff_id])

\* what restore_project_associate makes of the deleted account
associate_restored(associate) ==
    account_without_stamp(SetFields(associate, [is_active |-> TRUE]))

delete_project_associate(user, staff_id) ==
    LET found == find_one(users_collection, is_associate(staff_id))
        code == IF user.role # "admin" THEN 403
                ELSE IF found = <<>> THEN 404
                ELSE IF DuplicateKey(users_deleted_collection, found[1]) THEN 500
                ELSE 200
    IN  IF code # 200
        THEN /\ resp' = Resp("delete_project_associate", user, staff_id, code, <<>>)
             /\ no_log
             /\ UNCHANGED <<userVars, recordVars, document_links_collection, workVars,
                            issued, now, in_flight>>
        ELSE /\ users_deleted_collection' =
                    Append(users_deleted_collection,
                           associate_deletion_stamp(found[1], user))
             /\ users_collection' =
                    delete_one(users_collection, [staff_id |-> staff_id])
             /\ resp' = Resp("delete_project_associate", user, staff_id, 200, found)
             /\ no_log
             /\ UNCHANGED <<recordVars, document_links_collection, workVars, issued, now,
                            in_flight>>

restore_project_associate(user, staff_id) ==
    LET found == find_one(users_deleted_collection,
                          is_associate(staff_id))
        code == IF user.role # "admin" THEN 403
                ELSE IF found = <<>> THEN 404
                ELSE IF DuplicateKey(users_collection, found[1]) THEN 500
                ELSE 200
    IN  IF code # 200
        THEN /\ resp' = Resp("restore_project_associate", user, staff_id, code, <<>>)
             /\ no_log
             /\ UNCHANGED <<userVars, recordVars, document_links_collection, workVars,
                            issued, now, in_flight>>
        ELSE /\ users_collection' = Append(users_collection, associate_restored(found[1]))
             /\ users_deleted_collection' =
                    delete_one(users_deleted_collection, [staff_id |-> staff_id])
             /\ resp' = Resp("restore_project_associate", user, staff_id, 200,
                             Followed("delete_project_associate", staff_id))
             /\ no_log
             /\ UNCHANGED <<recordVars, document_links_collection, workVars, issued, now,
                            in_flight>>

\* fault: a listing filter that does not look at assigned_staff
every_active_associate(staff_id) ==
    {users_collection[i] :
         i \in Matching(users_collection,
                        [role |-> "project_associate", is_active |-> TRUE])}

\* the active associates whose assigned_staff array contains staff_id
supervised_associates(staff_id) ==
    {users_collection[i] :
         i \in Matching(users_collection,
                        [role |-> "project_associate", assigned_staff |-> staff_id,
                         is_active |-> TRUE])}

\* GET /admin/project-associates
get_project_associates(user) ==
    IF user.role # "admin" THEN [code |-> 403, out |-> {}]
    ELSE [code |-> 200,
          out |-> {users_collection[i]["_id"] :
                       i \in Matching(users_collection,
                                      [role |-> "project_associate"])}]

\* GET /admin/staff/{staff_id}/associates
get_associates_under_staff(user, staff_id) ==
    IF user.role # "admin" THEN [code |-> 403, out |-> {}]
    ELSE IF find_one(users_collection,
                     [staff_id |-> staff_id, role |-> "staff"]) = <<>>
    THEN [code |-> 404, out |-> {}]
    ELSE [code |-> 200, out |-> {a["_id"] : a \in supervised_associates(staff_id)}]

\* GET /staff/my-associates
staff_view_associates(user) ==
    IF user.role # "staff" THEN [code |-> 403, out |-> {}]
    ELSE [code |-> 200, out |-> {a["_id"] : a \in supervised_associates(user.staff_id)}]

(***************************************************************************)
(* Record documents.  A name is a sequence of characters; a file is the    *)
(* extension of its filename and its content type.  storage_ok = FALSE:    *)
(* the object store's upload raises.                                       *)
(***************************************************************************)
SafeChars ==
    {"a", "b", "c", "d", "e", "f", "g", "h", "i", "j", "k", "l", "m", "n", "o", "p",
     "q", "r", "s", "t", "u", "v", "w", "x", "y", "z", "A", "B", "C", "D", "E", "F",
     "G", "H", "I", "J", "K", "L", "M", "N", "O", "P", "Q", "R", "S", "T", "U", "V",
     "W", "X", "Y", "Z", "0", "1", "2", "3", "4", "5", "6", "7", "8", "9", "_", "-"}

\* re.sub(r"[^a-zA-Z0-9_-]", "_", pr_po_no)
sanitize_folder_name(pr_po_no) ==
    [i \in 1..Len(pr_po_no) |-> IF pr_po_no[i] \in SafeChars THEN pr_po_no[i] ELSE "_"]

\* supabase.storage.from_(bucket).upload(path, bytes, options): the object store
\* answers ok or fail, and makes no existence check
storage_upload(file_path, storage_ok) == storage_ok

\* fault: a soft delete that stamps the document and leaves its status
document_stamp_without_status(user) ==
    [deleted_by |-> user.staff_id, deleted_at |-> <<now>>]

\* what delete_document and delete_work_document $set on the document
document_deletion_stamp(user) ==
    [status |-> "deleted", deleted_by |-> user.staff_id, deleted_at |-> <<now>>]

\* the answer carries the document_name of the request
upload_document(user, record_id, document_name, file, storage_ok) ==
    LET found == find_in(records_collection, [_id |-> record_id])
        allowed_types == {"application/pdf", "image/jpeg", "image/png"}
        existing == find_in(document_links_collection,
                            [record_id |-> record_id, document_name |-> document_name,
                             status |-> "active"])
        code == IF found = <<>> THEN 404
                ELSE IF user.role = "staff" /\ found[1].staff_id # user.staff_id THEN 403
                ELSE IF file.content_type \notin allowed_types THEN 400
                ELSE IF existing # <<>> THEN 400
                ELSE IF ~storage_upload(<<sanitize_folder_name(found[1].pr_po_no),
                                           document_name \o <<".">> \o <<file.extension>>>>,
                                         storage_ok)
                THEN 500
                ELSE 200
    IN  IF code # 200
        THEN /\ resp' = Resp("upload_document", user, record_id, code, <<document_name>>)
             /\ no_log
             /\ UNCHANGED <<userVars, recordVars, document_links_collection, workVars,
                            issued, now, in_flight>>
        ELSE LET safe_pr_po_no == sanitize_folder_name(found[1].pr_po_no)
                 file_name == document_name \o <<".">> \o <<file.extension>>
                 document_data ==
                     [document_id |-> issued.documents + 1,
                      record_id |-> record_id,
                      pr_po_no |-> safe_pr_po_no,
                      document_name |-> document_name,
                      file_extension |-> file.extension,
                      file_path |-> <<safe_pr_po_no, file_name>>,
                      status |-> "active",
                      uploaded_by |-> user.staff_id,
                      uploaded_at |-> <<now>>,
                      deleted_by |-> NoneStr,
                      deleted_at |-> <<>>]
             IN  /\ document_links_collection' =
                        document_links_collection \cup {document_data}
                 /\ issued' = [issued EXCEPT !.documents = @ + 1]
                 /\ resp' = Resp("upload_document", user, record_id, 200,
                                 <<document_name>>)
                 /\ no_log
                 /\ UNCHANGED <<userVars, recordVars, workVars, now, in_flight>>

\* upload_document up to its duplicate-name lookup (the awaits of lines 690 and
\* 706): a request that passes every check is in flight, nothing is answered yet
upload_document_lookup(user, record_id, document_name, file) ==
    LET found == find_in(records_collection, [_id |-> record_id])
        allowed_types == {"application/pdf", "image/jpeg", "image/png"}
        existing == find_in(document_links_collection,
                            [record_id |-> record_id, document_name |-> document_name,
                             status |-> "active"])
        code == IF found = <<>> THEN 404
                ELSE IF user.role = "staff" /\ found[1].staff_id # user.staff_id THEN 403
                ELSE IF file.content_type \notin allowed_types THEN 400
                ELSE IF existing # <<>> THEN 400
                ELSE 200
    IN  /\ IF code # 200
           THEN /\ resp' = Resp("upload_document", user, record_id, code,
                                <<document_name>>)
                /\ UNCHANGED in_flight
           ELSE /\ in_flight' = in_flight \cup
                       {[user |-> user, record_id |-> record_id,
                         document_name |-> document_name, file |-> file,
                         safe_pr_po_no |-> sanitize_folder_name(found[1].pr_po_no)]}
                /\ UNCHANGED resp
        /\ no_log
        /\ UNCHANGED <<userVars, recordVars, document_links_collection, workVars,
                       issued, now>>

\* the rest of an upload_document in flight: the upload to the object store and
\* the insert_one of line 755
upload_document_insert(request, storage_ok) ==
    LET file_name == request.document_name \o <<".">> \o <<request.file.extension>>
        file_path == <<request.safe_pr_po_no, file_name>>
        document_data ==
            [document_id |-> issued.documents + 1,
             record_id |-> request.record_id,
             pr_po_no |-> request.safe_pr_po_no,
             document_name |-> request.document_name,
             file_extension |-> request.file.extension,
             file_path |-> file_path,
             status |-> "active",
             uploaded_by |-> request.user.staff_id,
             uploaded_at |-> <<now>>,
             deleted_by |-> NoneStr,
             deleted_at |-> <<>>]
    IN  /\ request \in in_flight
        /\ in_flight' = in_flight \ {request}
        /\ IF storage_upload(file_path, storage_ok)
           THEN /\ document_links_collection' =
                       document_links_collection \cup {document_data}
                /\ issued' = [issued EXCEPT !.documents = @ + 1]
                /\ resp' = Resp("upload_document", request.user, request.record_id, 200,
                                <<request.document_name>>)
           ELSE /\ resp' = Resp("upload_document", request.user, request.record_id, 500,
                                <<request.document_name>>)
                /\ UNCHANGED <<document_links_collection, issued>>
        /\ no_log
        /\ UNCHANGED <<userVars, recordVars, workVars, now>>

\* GET /records/{record_id}/documents/{document_id}
view_document(user, record_id, document_id) ==
    LET document == find_in(document_links_collection,
                            [document_id |-> document_id, record_id |-> record_id,
                             status |-> "active"])
        record == find_in(records_collection, [_id |-> record_id])
    IN  IF document = <<>> THEN [code |-> 404, out |-> {}]
        ELSE IF user.role = "staff" /\ record = <<>>
        THEN [code |-> 500, out |-> {}]     \* record["staff_id"] on None: TypeError
        ELSE IF user.role = "staff" /\ record[1].staff_id # user.staff_id
        THEN [code |-> 403, out |-> {}]
        ELSE [code |-> 200, out |-> {document_id}]

delete_document(user, document_id) ==
    LET document == find_in(document_links_collection,
                            [document_id |-> document_id, status |-> "active"])
    IN  IF document = <<>>
        THEN /\ resp' = Resp("delete_document", user, document_id, 404, <<>>)
             /\ no_log
             /\ UNCHANGED <<userVars, recordVars, document_links_collection, workVars,
                            issued, now, in_flight>>
        ELSE /\ document_links_collection' =
                    {IF d.document_id = document_id
                     THEN SetFields(d, document_deletion_stamp(user)) ELSE d :
                         d \in document_links_collection}
             /\ resp' = Resp("delete_document", user, document_id, 200, <<>>)
             /\ no_log
             /\ UNCHANGED <<userVars, recordVars, workVars, issued, now, in_flight>>

\* GET /records/{record_id}/documents
list_documents(user, record_id) ==
    [code |-> 200,
     out |-> {d.document_id : d \in {x \in document_links_collection :
                                         x.record_id = record_id /\ x.status = "active"}}]

(***************************************************************************)
(* Work items.  A work document carries task (standing for project_name,   *)
(* objective, task and description, which are stored and updated alike).   *)
(***************************************************************************)
\* fault: a staff check that does not look at assigned_staff
owning_associate(work, user) ==
    find_one(users_collection,
             [staff_id |-> work.staff_id, role |-> "project_associate",
              is_active |-> TRUE])

\* the filter every staff check on a work item passes to users_collection.find_one
supervising_associate(work, user) ==
    find_one(users_collection,
             [staff_id |-> work.staff_id, role |-> "project_associate",
              assigned_staff |-> user.staff_id, is_active |-> TRUE])

can_staff_access_work(user, work) ==
    IF user.role = "admin" THEN TRUE
    ELSE IF user.role = "project_associate" THEN work.staff_id = user.staff_id
    ELSE IF user.role = "staff" THEN supervising_associate(work, user) # <<>>
    ELSE FALSE

(***************************************************************************)
(* calculate_status computes in binary64: timedelta.total_seconds() is the *)
(* correctly rounded quotient microseconds / 10**6, ratio the correctly    *)
(* rounded quotient of two such floats, and 1/3 and 2/3 are floats too.    *)
(* A positive float is [m, e] with value m * 2^e and a mantissa m of       *)
(* MantissaBits bits, held in two limbs <<high, low>> of base Limb.        *)
(***************************************************************************)
MantissaBits == 53
Limb == 134217728

Zero == [m |-> <<0, 0>>, e |-> 0]

Big(n) == <<n \div Limb, n % Limb>>

BigDouble(x) == <<2 * x[1] + (2 * x[2]) \div Limb, (2 * x[2]) % Limb>>

BigGeq(x, y) == x[1] > y[1] \/ (x[1] = y[1] /\ x[2] >= y[2])

BigSub(x, y) ==
    IF x[2] >= y[2] THEN <<x[1] - y[1], x[2] - y[2]>>
    ELSE <<x[1] - y[1] - 1, x[2] + Limb - y[2]>>

BigInc(x) == IF x[2] + 1 = Limb THEN <<x[1] + 1, 0>> ELSE <<x[1], x[2] + 1>>

\* n / d = (n' / d') * 2^k with d' <= n' < 2 * d'
RECURSIVE Normalise(_, _, _)
Normalise(n, d, k) ==
    IF ~BigGeq(n, d) THEN Normalise(BigDouble(n), d, k - 1)
    ELSE IF BigGeq(n, BigDouble(d)) THEN Normalise(n, BigDouble(d), k + 1)
    ELSE [n |-> n, d |-> d, k |-> k]

\* one step of the long division by d: the next quotient bit and remainder
QuotientStep(qr, d) ==
    IF BigGeq(BigDouble(qr.r), d)
    THEN [q |-> BigInc(BigDouble(qr.q)), r |-> BigSub(BigDouble(qr.r), d)]
    ELSE [q |-> BigDouble(qr.q), r |-> BigDouble(qr.r)]

\* long division: bits more quotient bits after qr.q, qr.r the remainder so far
\* (the steps are split in halves and the first half is computed, by the test
\* on it, before the second starts: this keeps the evaluation shallow)
RECURSIVE QuotientBits(_, _, _)
QuotientBits(qr, d, bits) ==
    IF bits = 0 THEN qr
    ELSE IF bits = 1 THEN QuotientStep(qr, d)
    ELSE LET half == QuotientBits(qr, d, bits \div 2)
         IN  IF half.q = <<0, 0>> THEN half
             ELSE QuotientBits(half, d, bits - bits \div 2)

\* the float nearest to (n / d) * 2^e, ties to the even mantissa
RoundedQuotient(n, d, e) ==
    LET s == Normalise(n, d, 0)
        qr == QuotientBits([q |-> <<0, 1>>, r |-> BigSub(s.n, s.d)], s.d,
                          MantissaBits - 1)
        twice == BigDouble(qr.r)
        up == BigGeq(twice, s.d) /\ (twice # s.d \/ qr.q[2] % 2 = 1)
        q == IF up THEN BigInc(qr.q) ELSE qr.q
    IN  IF q = <<Limb \div 2, 0>>
        THEN [m |-> <<Limb \div 4, 0>>, e |-> s.k + e - (MantissaBits - 1) + 1]
        ELSE [m |-> q, e |-> s.k + e - (MantissaBits - 1)]

\* a / b of two ints, a >= 0 and b > 0
truediv(a, b) == IF a = 0 THEN Zero ELSE RoundedQuotient(Big(a), Big(b), 0)

\* x / y of two floats, x >= 0 and y > 0
float_div(x, y) == IF x = Zero THEN Zero ELSE RoundedQuotient(x.m, y.m, x.e - y.e)

\* x <= y of two floats that are not negative
float_leq(x, y) ==
    \/ x = Zero
    \/ /\ y # Zero
       /\ \/ x.e < y.e
          \/ x.e = y.e /\ BigGeq(y.m, x.m)

\* timedelta.total_seconds() of a difference of microseconds >= 0
total_seconds(microseconds) == truediv(microseconds, 1000000)

\* a stored date has the resolution of a millisecond; allocated, deadline and the
\* clock count milliseconds here.  total <= 0 exactly when deadline <= allocated,
\* and a negative elapsed gives a negative ratio, which is <= 1/3
calculate_status(allocated, deadline) ==
    LET total == (deadline[1] - allocated[1]) * 1000
        elapsed == (now - allocated[1]) * 1000
    IN  IF total <= 0 THEN "red"
        ELSE IF elapsed < 0 THEN "green"
        ELSE LET ratio == float_div(total_seconds(elapsed), total_seconds(total))
             IN  IF float_leq(ratio, truediv(1, 3)) THEN "green"
                 ELSE IF float_leq(ratio, truediv(2, 3)) THEN "yellow"
                 ELSE "red"

\* GET /works: the status computed for each work item listed
get_works_status(user) ==
    {[work_id |-> w.work_id,
      status |-> calculate_status(w.allocated_time, w.deadline_time)] :
         w \in IF user.role = "admin" THEN work_collection
               ELSE {x \in work_collection :
                         x.staff_id = user.staff_id /\ x.is_deleted # TRUE}}

\* GET /works: the work_ids listed
get_works(user) ==
    IF user.role = "admin"
    THEN [code |-> 200, out |-> {w.work_id : w \in work_collection}]
    ELSE IF user.role = "staff"
    THEN LET associate_ids == {a.staff_id : a \in supervised_associates(user.staff_id)}
         IN  [code |-> 200,
              out |-> {w.work_id : w \in {x \in work_collection :
                                              /\ x.staff_id \in associate_ids
                                              /\ x.is_deleted # TRUE}}]
    ELSE IF user.role = "project_associate"
    THEN [code |-> 200,
          out |-> {w.work_id : w \in {x \in work_collection :
                                          /\ x.staff_id = user.staff_id
                                          /\ x.is_deleted # TRUE}}]
    ELSE [code |-> 403, out |-> {}]

create_work(user, data) ==
    LET associate == find_one(users_collection,
                              [staff_id |-> data.staff_id, role |-> "project_associate",
                               is_active |-> TRUE])
        code == IF user.role \notin {"admin", "staff"} THEN 403
                ELSE IF associate = <<>> THEN 404
                ELSE IF /\ user.role = "staff"
                        /\ user.staff_id \notin
                               (IF "assigned_staff" \in DOMAIN associate[1]
                                THEN associate[1].assigned_staff ELSE {})
                THEN 403
                ELSE 200
    IN  IF code # 200
        THEN /\ resp' = Resp("create_work", user, data.staff_id, code, <<>>)
             /\ no_log
             /\ UNCHANGED <<userVars, recordVars, document_links_collection, workVars,
                            issued, now, in_flight>>
        ELSE LET work_data ==
                     [work_id |-> issued.works + 1,
                      is_deleted |-> FALSE,
                      staff_id |-> data.staff_id,
                      associate_name |-> associate[1].name,
                      task |-> data.task,
                      allocated_time |-> data.allocated_time,
                      deadline_time |-> data.deadline_time,
                      progress_description |-> "",
                      reason_for_delay |-> NoneStr,
                      created_by |-> user.staff_id,
                      created_role |-> user.role,
                      created_at |-> <<now>>]
             IN  /\ work_collection' = work_collection \cup {work_data}
                 /\ issued' = [issued EXCEPT !.works = @ + 1]
                 /\ resp' = Resp("create_work", user, work_data.work_id, 200, <<>>)
                 /\ no_log
                 /\ UNCHANGED <<userVars, recordVars, document_links_collection,
                                work_document_collection, now, in_flight>>

\* work_collection.update_one({"work_id": work_id}, {"$set": u})
set_work(work_id, u) ==
    {IF w.work_id = work_id THEN SetFields(w, u) ELSE w : w \in work_collection}

\* fault: role checks whose project associate branch does not compare staff_id
work_member_check_any_associate(user, work) ==
    IF user.role = "admin" THEN 200
    ELSE IF user.role = "staff"
    THEN (IF supervising_associate(work, user) = <<>> THEN 403 ELSE 200)
    ELSE IF user.role = "project_associate" THEN 200
    ELSE 403

\* the answer of the role checks of update_work and delete_work_document
work_member_check(user, work) ==
    IF user.role = "admin" THEN 200
    ELSE IF user.role = "staff"
    THEN (IF supervising_associate(work, user) = <<>> THEN 403 ELSE 200)
    ELSE IF user.role = "project_associate"
    THEN (IF work.staff_id # user.staff_id THEN 403 ELSE 200)
    ELSE 403

\* fault: role checks that start at the staff branch
work_supervisor_check_without_admin(user, work) ==
    IF user.role = "staff"
    THEN (IF supervising_associate(work, user) = <<>> THEN 403 ELSE 200)
    ELSE 403

\* the answer of the role checks of soft_delete_work and restore_work
work_supervisor_check(user, work) ==
    IF user.role = "admin" THEN 200
    ELSE IF user.role = "staff"
    THEN (IF supervising_associate(work, user) = <<>> THEN 403 ELSE 200)
    ELSE 403

\* data is data.dict(exclude_unset=True)
update_work(user, work_id, data) ==
    LET work == find_in(work_collection, [work_id |-> work_id])
        code == IF work = <<>> THEN 404
                ELSE IF work_member_check(user, work[1]) # 200
                THEN work_member_check(user, work[1])
                ELSE IF DOMAIN data = {} THEN 400
                ELSE 200
    IN  /\ resp' = Resp("update_work", user, work_id, code, <<>>)
        /\ work_collection' = IF code = 200 THEN set_work(work_id, data)
                              ELSE work_collection
        /\ no_log
        /\ UNCHANGED <<userVars, recordVars, document_links_collection,
                       work_document_collection, issued, now, in_flight>>

update_progress(user, work_id, data) ==
    LET work == find_in(work_collection, [work_id |-> work_id])
        code == IF user.role # "project_associate" THEN 403
                ELSE IF work = <<>> THEN 404
                ELSE IF work[1].staff_id # user.staff_id THEN 403
                ELSE 200
    IN  /\ resp' = Resp("update_progress", user, work_id, code, <<>>)
        /\ work_collection' =
               IF code = 200
               THEN set_work(work_id, [progress_description |-> data.progress_description])
               ELSE work_collection
        /\ no_log
        /\ UNCHANGED <<userVars, recordVars, document_links_collection,
                       work_document_collection, issued, now, in_flight>>

\* datetime.now(timezone.utc) < work["deadline_time"]: the stored deadline is read
\* back without tzinfo (the client of database.py is not tz_aware), and Python
\* raises TypeError on the comparison of an aware with a naive datetime
deadline_comparison(work) == "TypeError"

add_delay_reason(user, work_id, data) ==
    LET work == find_in(work_collection, [work_id |-> work_id])
        code == IF work = <<>> THEN 404
                ELSE IF user.role # "project_associate" THEN 403
                ELSE IF work[1].staff_id # user.staff_id THEN 403
                ELSE IF deadline_comparison(work[1]) = "TypeError" THEN 500
                ELSE IF deadline_comparison(work[1]) = "before" THEN 400
                ELSE 200
    IN  /\ resp' = Resp("add_delay_reason", user, work_id, code, <<>>)
        /\ work_collection' =
               IF code = 200
               THEN set_work(work_id, [reason_for_delay |-> data.reason])
               ELSE work_collection
        /\ no_log
        /\ UNCHANGED <<userVars, recordVars, document_links_collection,
                       work_document_collection, issued, now, in_flight>>

\* p is a prefix of s
IsPrefix(p, s) == Len(p) <= Len(s) /\ SubSeq(s, 1, Len(p)) = p

\* {"$regex": "/" + document_name + "\\."} on works/<staff_id>/<work_id>/<file name>,
\* for names without regex metacharacters: the file name starts with the name and a dot
path_matches(file_path, document_name) ==
    IsPrefix(document_name \o <<".">>, file_path[4])

upload_work_document(user, work_id, document_name, file, storage_ok) ==
    LET work == find_in(work_collection, [work_id |-> work_id])
        allowed_types == {"pdf", "png", "jpg", "jpeg"}
        existing == {d \in work_document_collection :
                         /\ Matches(d, [work_id |-> work_id, status |-> "active"])
                         /\ path_matches(d.file_path, document_name)}
        code == IF work = <<>> THEN 404
                ELSE IF ~can_staff_access_work(user, work[1]) THEN 403
                ELSE IF file.extension \notin allowed_types THEN 400
                ELSE IF existing # {} THEN 400
                ELSE IF ~storage_upload(<<"works", work[1].staff_id, work_id,
                                           document_name \o <<".">> \o <<file.extension>>>>,
                                         storage_ok)
                THEN 500
                ELSE 200
    IN  IF code # 200
        THEN /\ resp' = Resp("upload_work_document", user, work_id, code, <<>>)
             /\ no_log
             /\ UNCHANGED <<userVars, recordVars, document_links_collection, workVars,
                            issued, now, in_flight>>
        ELSE LET file_path == <<"works", work[1].staff_id, work_id,
                                 document_name \o <<".">> \o <<file.extension>>>>
             IN  /\ work_document_collection' = work_document_collection \cup
                        {[document_id |-> issued.work_documents + 1,
                          work_id |-> work_id,
                          file_path |-> file_path,
                          status |-> "active",
                          uploaded_by |-> user.staff_id,
                          uploaded_at |-> <<now>>]}
                 /\ issued' = [issued EXCEPT !.work_documents = @ + 1]
                 /\ resp' = Resp("upload_work_document", user, work_id, 200, <<>>)
                 /\ no_log
                 /\ UNCHANGED <<userVars, recordVars, document_links_collection,
                                work_collection, now, in_flight>>

\* GET /works/{work_id}/documents
list_work_documents(user, work_id) ==
    LET work == find_in(work_collection, [work_id |-> work_id])
    IN  IF work = <<>> THEN [code |-> 404, out |-> {}]
        ELSE IF ~can_staff_access_work(user, work[1]) THEN [code |-> 403, out |-> {}]
        ELSE [code |-> 200,
              out |-> {d.document_id : d \in {x \in work_document_collection :
                                                  x.work_id = work_id /\ x.status = "active"}}]

delete_work_document(user, document_id) ==
    LET document == find_in(work_document_collection,
                            [document_id |-> document_id, status |-> "active"])
        work == IF document = <<>> THEN <<>>
                ELSE find_in(work_collection, [work_id |-> document[1].work_id])
        code == IF document = <<>> THEN 404
                ELSE IF work = <<>> THEN 404
                ELSE work_member_check(user, work[1])
    IN  /\ resp' = Resp("delete_work_document", user, document_id, code, <<>>)
        /\ work_document_collection' =
               IF code = 200
               THEN {IF d.document_id = document_id
                     THEN SetFields(d, document_deletion_stamp(user)) ELSE d :
                         d \in work_document_collection}
               ELSE work_document_collection
        /\ no_log
        /\ UNCHANGED <<userVars, recordVars, document_links_collection, work_collection,
                       issued, now, in_flight>>

\* GET /staff/my-works
staff_view_works(user) ==
    IF user.role # "staff" THEN [code |-> 403, out |-> {}]
    ELSE LET associate_ids == {a.staff_id : a \in supervised_associates(user.staff_id)}
         IN  [code |-> 200,
              out |-> {w.work_id : w \in {x \in work_collection :
                                              /\ x.staff_id \in associate_ids
                                              /\ x.is_deleted # TRUE}}]

\* what soft_delete_work $sets on the work item
work_deletion_stamp(user) ==
    [is_deleted |-> TRUE, deleted_at |-> <<now>>, deleted_by |-> user.staff_id]

\* fault: a restore that clears the flag and forgets the $unset
work_restored_without_unset(work) == SetFields(work, [is_deleted |-> FALSE])

\* restore_work: {"$set": {"is_deleted": False}, "$unset": {deleted_at, deleted_by}}
work_restored(work) ==
    Pop(SetFields(work, [is_deleted |-> FALSE]), {"deleted_at", "deleted_by"})

soft_delete_work(user, work_id) ==
    LET work == find_in(work_collection, [work_id |-> work_id])
        code == IF work = <<>> THEN 404 ELSE work_supervisor_check(user, work[1])
    IN  /\ resp' = Resp("soft_delete_work", user, work_id, code,
                        IF code = 200 THEN work ELSE <<>>)
        /\ work_collection' = IF code = 200
                              THEN set_work(work_id, work_deletion_stamp(user))
                              ELSE work_collection
        /\ no_log
        /\ UNCHANGED <<userVars, recordVars, document_links_collection,
                       work_document_collection, issued, now, in_flight>>

\* fault: a restore that looks the work item up by work_id alone
any_work(work_id) == [work_id |-> work_id]

\* the filter of restore_work's find_one
deleted_work(work_id) == [work_id |-> work_id, is_deleted |-> TRUE]

restore_work(user, work_id) ==
    LET work == find_in(work_collection, deleted_work(work_id))
        code == IF work = <<>> THEN 404 ELSE work_supervisor_check(user, work[1])
    IN  /\ resp' = Resp("restore_work", user, work_id, code,
                        IF code = 200 THEN Followed("soft_delete_work", work_id)
                        ELSE <<>>)
        /\ work_collection' =
               IF code = 200
               THEN {IF w.work_id = work_id THEN work_restored(w) ELSE w :
                         w \in work_collection}
               ELSE work_collection
        /\ no_log
        /\ UNCHANGED <<userVars, recordVars, document_links_collection,
                       work_document_collection, issued, now, in_flight>>

\* GET /works/deleted
view_deleted_works(user) ==
    IF user.role = "admin"
    THEN [code |-> 200,
          out |-> {w.work_id : w \in {x \in work_collection : x.is_deleted = TRUE}}]
    ELSE IF user.role = "staff"
    THEN LET associate_ids ==
                 {users_collection[i].staff_id :
                      i \in Matching(users_collection,
                                     [role |-> "project_associate",
                                      assigned_staff |-> user.staff_id])}
         IN  [code |-> 200,
              out |-> {w.work_id : w \in {x \in work_collection :
                                              /\ x.staff_id \in associate_ids
                                              /\ x.is_deleted = TRUE}}]
    ELSE [code |-> 403, out |-> {}]

(***************************************************************************)
(* The clock.                                                              *)
(***************************************************************************)
Tick ==
    /\ now < MaxTime
    /\ now' = now + 1
    /\ UNCHANGED <<userVars, recordVars, document_links_collection, workVars,
                   audit_appended, issued, in_flight, resp>>

(***************************************************************************)
(* main.py: the TTL indexes on deleted_at of users_deleted and             *)
(* records_deleted.  The clock of the purge counts seconds and advances a  *)
(* day at a time; MongoDB's TTL monitor removes, at some later pass, a     *)
(* document whose deleted_at lies expireAfterSeconds or more in the past.  *)
(***************************************************************************)
expireAfterSeconds == 432000
SecondsPerDay == 86400

expired(document) == document.deleted_at[1] + expireAfterSeconds <= now

TickDay ==
    /\ now < MaxDays * SecondsPerDay
    /\ now' = now + SecondsPerDay
    /\ UNCHANGED <<userVars, recordVars, document_links_collection, workVars,
                   audit_appended, issued, in_flight, resp>>

\* one pass of the TTL monitor removes an expired document of either store
ttl_purge ==
    /\ \/ \E r \in records_deleted_collection :
              /\ expired(r)
              /\ records_deleted_collection' = records_deleted_collection \ {r}
              /\ UNCHANGED users_deleted_collection
       \/ \E i \in 1..Len(users_deleted_collection) :
              /\ expired(users_deleted_collection[i])
              /\ users_deleted_collection' =
                     SubSeq(users_deleted_collection, 1, i - 1)
                         \o SubSeq(users_deleted_collection, i + 1,
                                   Len(users_deleted_collection))
              /\ UNCHANGED records_deleted_collection
    /\ UNCHANGED <<users_collection, records_collection, document_links_collection,
                   workVars, audit_appended, issued, now, in_flight, resp>>

(***************************************************************************)
(* Token payloads in circulation and request bodies.                       *)
(***************************************************************************)
Token(role, staff_id) == [role |-> role, staff_id |-> staff_id]
AdminToken == Token("admin", "adm")

\* records belong to s1 or s2; the staff token is s1's
RecordUsers == {AdminToken, Token("staff", "s1"), Token("project_associate", "p1")}

\* the request bodies: s1's order of 2 and s2's order of 3, 1 of it used
RecordCreate ==
    [staff_id : {"s1"}, pr_po_no : {<<"P", "O", "/", "1">>}, approval_rs : {2},
     utilization_rs : {1}, description : {"d"}]
    \cup [staff_id : {"s2"}, pr_po_no : {<<"P", "O", "/", "1">>}, approval_rs : {3},
          utilization_rs : {1}, description : {"d"}]

AdminAccount ==
    [_id |-> 0, staff_id |-> "adm", name |-> "admin", password_hash |-> <<"bcrypt", "pw">>,
     role |-> "admin", is_active |-> TRUE]

Init ==
    /\ users_collection = <<AdminAccount>>
    /\ users_deleted_collection = <<>>
    /\ records_collection = {}
    /\ records_deleted_collection = {}
    /\ document_links_collection = {}
    /\ work_collection = {}
    /\ work_document_collection = {}
    /\ audit_appended = <<>>
    /\ issued = [users |-> 0, records |-> 0, documents |-> 0, works |-> 0,
                 work_documents |-> 0]
    /\ now = 0
    /\ in_flight = {}
    /\ resp = Resp("none", AdminToken, 0, 200, <<>>)

(***************************************************************************)
(* The records service: every record handler, any token.                   *)
(***************************************************************************)
NextRecords ==
    \/ \E user \in RecordUsers, record \in RecordCreate :
           /\ issued.records < MaxRecords
           /\ create_record(user, record, TRUE)
    \/ \E user \in RecordUsers, record_id \in 1..MaxRecords, record \in RecordCreate :
           update_record(user, record_id, record, TRUE)
    \/ \E user \in RecordUsers, record_id \in 1..MaxRecords :
           delete_record(user, record_id, TRUE)
    \/ \E user \in RecordUsers, record_id \in 1..MaxRecords :
           restore_record(user, record_id, TRUE)

SpecRecords == Init /\ [][NextRecords]_vars

(***************************************************************************)
(* The account service: every handler that writes an account, any token.   *)
(***************************************************************************)
\* accounts are created under the staff_id u1, as staff or as project associate
AccountUsers == {AdminToken, Token("staff", "u1")}

AccountIds == {"adm", "u1"}

StaffCreate == [staff_id : {"u1"}, name : {"n"}, password : {"pw"}]

ProjectAssociateUpdate == [is_active : BOOLEAN] \cup [assigned_staff : {{"s1"}}]

NextAccounts ==
    \/ \E user \in AccountUsers, data \in StaffCreate :
           /\ issued.users < MaxAccounts
           /\ create_staff(user, data)
    \/ \E user \in AccountUsers, data \in StaffCreate :
           /\ issued.users < MaxAccounts
           /\ create_project_associate(user, data)
    \/ \E user \in AccountUsers, staff_id \in AccountIds :
           \/ delete_staff(user, staff_id)
           \/ restore_staff(user, staff_id)
           \/ delete_project_associate(user, staff_id)
           \/ restore_project_associate(user, staff_id)
    \/ \E user \in AccountUsers, staff_id \in AccountIds,
          data \in ProjectAssociateUpdate :
           update_project_associate(user, staff_id, data)

SpecAccounts == Init /\ [][NextAccounts]_vars

(***************************************************************************)
(* The work service seen by a staff member.  The admin has created staff   *)
(* s1 and the associates p1 and p2 (p2 is supervised by another staff      *)
(* member, s2); the admin assigns and activates p1 and creates work, and   *)
(* s1 acts on the work items and their documents.                          *)
(***************************************************************************)
StaffS1 == Token("staff", "s1")

Associate(oid, staff_id, assigned_staff) ==
    [_id |-> oid, staff_id |-> staff_id, name |-> "n",
     password_hash |-> hash_password("pw"), role |-> "project_associate",
     is_active |-> TRUE, assigned_staff |-> assigned_staff, created_at |-> <<0>>]

InitWorks ==
    /\ users_collection =
           <<AdminAccount,
             [_id |-> 1, staff_id |-> "s1", name |-> "n",
              password_hash |-> hash_password("pw"), role |-> "staff",
              is_active |-> TRUE],
             Associate(2, "p1", {}),
             Associate(3, "p2", {"s2"})>>
    /\ users_deleted_collection = <<>>
    /\ records_collection = {}
    /\ records_deleted_collection = {}
    /\ document_links_collection = {}
    /\ work_collection = {}
    /\ work_document_collection = {}
    /\ audit_appended = <<>>
    /\ issued = [users |-> 3, records |-> 0, documents |-> 0, works |-> 0,
                 work_documents |-> 0]
    /\ now = 0
    /\ in_flight = {}
    /\ resp = Resp("none", AdminToken, 0, 200, <<>>)

WorkCreate == [staff_id : {"p1", "p2"}, task : {"t"}, allocated_time : {<<0>>},
               deadline_time : {<<1>>}]

\* {} is the body that sets no field
WorkUpdate == {<<>>, [task |-> "t2"]}

DocumentNames == {<<"a">>}

PdfFile == [extension |-> "pdf", content_type |-> "application/pdf"]

NextWorks ==
    \/ \E data \in [is_active : BOOLEAN] \cup [assigned_staff : {{}, {"s1"}}] :
           update_project_associate(AdminToken, "p1", data)
    \/ \E data \in WorkCreate :
           /\ issued.works < MaxWorks
           /\ create_work(AdminToken, data)
    \/ \E work_id \in 1..MaxWorks, data \in WorkUpdate :
           update_work(StaffS1, work_id, data)
    \/ \E work_id \in 1..MaxWorks :
           \/ soft_delete_work(StaffS1, work_id)
           \/ restore_work(StaffS1, work_id)
    \/ \E work_id \in 1..MaxWorks, document_name \in DocumentNames :
           /\ issued.work_documents < MaxDocs
           /\ upload_work_document(StaffS1, work_id, document_name, PdfFile, TRUE)
    \/ \E document_id \in 1..MaxDocs :
           delete_work_document(StaffS1, document_id)

SpecWorks == InitWorks /\ [][NextWorks]_vars

(***************************************************************************)
(* The work service seen by a project associate.  The admin creates work   *)
(* for p1 and p2, deletes work items and uploads work documents; p1 calls  *)
(* every handler that writes a work item or a work document.               *)
(***************************************************************************)
\* the ids issued so far, over all collections
IssuedInAll ==
    issued.users + issued.records + issued.documents + issued.works
        + issued.work_documents

AssociateP1 == Token("project_associate", "p1")

\* the work items and work documents created so far
IssuedToWorks == issued.works + issued.work_documents

NextAssociate ==
    \/ \E data \in WorkCreate :
           /\ issued.works < MaxWorks
           /\ IssuedToWorks < MaxIssued
           /\ create_work(AdminToken, data)
    \/ \E work_id \in 1..MaxWorks : soft_delete_work(AdminToken, work_id)
    \/ \E user \in {AdminToken, AssociateP1}, work_id \in 1..MaxWorks,
          document_name \in DocumentNames :
           /\ issued.work_documents < MaxDocs
           /\ IssuedToWorks < MaxIssued
           /\ upload_work_document(user, work_id, document_name, PdfFile, TRUE)
    \/ \E work_id \in 1..MaxWorks, data \in WorkUpdate :
           update_work(AssociateP1, work_id, data)
    \/ \E work_id \in 1..MaxWorks :
           \/ update_progress(AssociateP1, work_id, [progress_description |-> "p"])
           \/ add_delay_reason(AssociateP1, work_id, [reason |-> "r"])
           \/ soft_delete_work(AssociateP1, work_id)
           \/ restore_work(AssociateP1, work_id)
    \/ \E document_id \in 1..MaxDocs :
           delete_work_document(AssociateP1, document_id)

SpecAssociate == InitWorks /\ [][NextAssociate]_vars

(***************************************************************************)
(* The status of a work item.  The clock stands at any millisecond up to   *)
(* MaxMillis; the admin creates one work item for p1, allocated and due at *)
(* any millisecond, and get_works computes its status.                     *)
(***************************************************************************)
InitStatus ==
    /\ users_collection = <<AdminAccount, Associate(1, "p1", {})>>
    /\ users_deleted_collection = <<>>
    /\ records_collection = {}
    /\ records_deleted_collection = {}
    /\ document_links_collection = {}
    /\ work_collection = {}
    /\ work_document_collection = {}
    /\ audit_appended = <<>>
    /\ issued = [users |-> 1, records |-> 0, documents |-> 0, works |-> 0,
                 work_documents |-> 0]
    /\ now \in 0..MaxMillis
    /\ in_flight = {}
    /\ resp = Resp("none", AdminToken, 0, 200, <<>>)

StatusWorkCreate ==
    [staff_id : {"p1"}, task : {"t"},
     allocated_time : {<<t>> : t \in 0..1},
     deadline_time : {<<t>> : t \in 0..MaxMillis}]

NextStatus ==
    \E data \in StatusWorkCreate :
        /\ work_collection = {}
        /\ create_work(AdminToken, data)

SpecStatus == InitStatus /\ [][NextStatus]_vars

(***************************************************************************)
(* The admin's session: every handler that writes, called with the admin   *)
(* token, on at most MaxIssued records, accounts, work items and           *)
(* documents in all.                                                       *)
(***************************************************************************)
AdminRecordCreate == [staff_id : {"s1"}, pr_po_no : {<<"P", "O", "/", "1">>},
                      approval_rs : {2}, utilization_rs : {1}, description : {"d"}]

AdminStaffCreate == [staff_id : {"s1"}, name : {"n"}, password : {"pw"}]

AdminAssociateCreate == [staff_id : {"p1"}, name : {"n"}, password : {"pw"}]

AdminWorkCreate == [staff_id : {"p1"}, task : {"t"}, allocated_time : {<<0>>},
                    deadline_time : {<<1>>}]

NextAdmin ==
    \/ \E record \in AdminRecordCreate :
           /\ IssuedInAll < MaxIssued
           /\ create_record(AdminToken, record, TRUE)
    \/ \E record \in AdminRecordCreate : update_record(AdminToken, 1, record, TRUE)
    \/ delete_record(AdminToken, 1, TRUE)
    \/ restore_record(AdminToken, 1, TRUE)
    \/ \E data \in AdminStaffCreate :
           /\ IssuedInAll < MaxIssued
           /\ create_staff(AdminToken, data)
    \/ \E data \in AdminAssociateCreate :
           /\ IssuedInAll < MaxIssued
           /\ create_project_associate(AdminToken, data)
    \/ delete_staff(AdminToken, "s1")
    \/ restore_staff(AdminToken, "s1")
    \/ update_project_associate(AdminToken, "p1", [is_active |-> FALSE])
    \/ delete_project_associate(AdminToken, "p1")
    \/ restore_project_associate(AdminToken, "p1")
    \/ /\ IssuedInAll < MaxIssued
       /\ upload_document(AdminToken, 1, <<"a">>, PdfFile, TRUE)
    \/ delete_document(AdminToken, 1)
    \/ \E data \in AdminWorkCreate :
           /\ IssuedInAll < MaxIssued
           /\ create_work(AdminToken, data)
    \/ update_work(AdminToken, 1, [task |-> "t2"])
    \/ update_progress(AdminToken, 1, [progress_description |-> "p"])
    \/ add_delay_reason(AdminToken, 1, [reason |-> "r"])
    \/ soft_delete_work(AdminToken, 1)
    \/ restore_work(AdminToken, 1)
    \/ /\ IssuedInAll < MaxIssued
       /\ upload_work_document(AdminToken, 1, <<"a">>, PdfFile, TRUE)
    \/ delete_work_document(AdminToken, 1)

SpecAdmin == Init /\ [][NextAdmin]_vars

(***************************************************************************)
(* The documents of a record.  The admin creates the record of s1; the     *)
(* admin and s1 upload documents under two names and delete them, and the  *)
(* object store takes a file or fails.                                     *)
(***************************************************************************)
RecordDocumentNames == {<<"a">>, <<"b">>}

NextDocuments ==
    \/ \E record \in AdminRecordCreate :
           /\ issued.records < 1
           /\ create_record(AdminToken, record, TRUE)
    \/ \E user \in {AdminToken, StaffS1}, document_name \in RecordDocumentNames,
          storage_ok \in BOOLEAN :
           /\ issued.documents < MaxIssued
           /\ upload_document(user, 1, document_name, PdfFile, storage_ok)
    \/ \E user \in {AdminToken, StaffS1}, document_id \in 1..MaxIssued :
           delete_document(user, document_id)

SpecDocuments == Init /\ [][NextDocuments]_vars

(***************************************************************************)
(* Delay reasons.  The admin creates work for p1, due at tick 1, and moves *)
(* deadlines; the clock ticks; p1 gives a reason for delay.                *)
(***************************************************************************)
NextDelay ==
    \/ \E data \in AdminWorkCreate :
           /\ issued.works < MaxWorks
           /\ create_work(AdminToken, data)
    \/ \E work_id \in 1..MaxWorks, t \in 0..MaxTime :
           update_work(AdminToken, work_id, [deadline_time |-> <<t>>])
    \/ \E work_id \in 1..MaxWorks :
           add_delay_reason(AssociateP1, work_id, [reason |-> "r"])
    \/ Tick

SpecDelay == InitWorks /\ [][NextDelay]_vars

(***************************************************************************)
(* The audit trail.  The admin and s1 work on records while the audit sink *)
(* takes an entry or fails; the admin creates, deletes and restores the    *)
(* accounts s1 and p1.                                                     *)
(***************************************************************************)
NextAudit ==
    \/ \E user \in {AdminToken, StaffS1}, record \in AdminRecordCreate,
          audit_ok \in BOOLEAN :
           \/ /\ IssuedInAll < MaxIssued
              /\ create_record(user, record, audit_ok)
           \/ update_record(user, 1, record, audit_ok)
    \/ \E user \in {AdminToken, StaffS1}, audit_ok \in BOOLEAN :
           \/ delete_record(user, 1, audit_ok)
           \/ restore_record(user, 1, audit_ok)
    \/ \E data \in AdminStaffCreate :
           /\ IssuedInAll < MaxIssued
           /\ create_staff(AdminToken, data)
    \/ \E data \in AdminAssociateCreate :
           /\ IssuedInAll < MaxIssued
           /\ create_project_associate(AdminToken, data)
    \/ delete_staff(AdminToken, "s1")
    \/ restore_staff(AdminToken, "s1")
    \/ delete_project_associate(AdminToken, "p1")
    \/ restore_project_associate(AdminToken, "p1")

SpecAudit == Init /\ [][NextAudit]_vars

(***************************************************************************)
(* Concurrent uploads.  The admin uploads a pdf and s1 a png to the record *)
(* of s1, each under any of the two names; the requests interleave at the  *)
(* awaits between the duplicate-name lookup and the insert.                *)
(***************************************************************************)
PngFile == [extension |-> "png", content_type |-> "image/png"]

NextUploads ==
    \/ \E record \in AdminRecordCreate :
           /\ issued.records < 1
           /\ create_record(AdminToken, record, TRUE)
    \/ \E upload \in {<<AdminToken, PdfFile>>, <<StaffS1, PngFile>>},
          document_name \in RecordDocumentNames :
           /\ issued.documents + Cardinality(in_flight) < MaxIssued
           /\ upload_document_lookup(upload[1], 1, document_name, upload[2])
    \/ \E request \in in_flight, storage_ok \in BOOLEAN :
           upload_document_insert(request, storage_ok)
    \/ \E document_id \in 1..MaxIssued : delete_document(AdminToken, document_id)

SpecUploads == Init /\ [][NextUploads]_vars

(***************************************************************************)
(* Concurrent moves of a record.  The admin creates the record of s1; the  *)
(* admin and s1 delete and restore it, and the store steps of their        *)
(* requests interleave at the awaits.                                      *)
(***************************************************************************)
NextMoves ==
    \/ \E record \in AdminRecordCreate :
           /\ issued.records < 1
           /\ create_record(AdminToken, record, TRUE)
    \/ \E user \in RecordUsers : delete_record_find(user, 1)
    \/ \E user \in RecordUsers : restore_record_find(user, 1)
    \/ \E request \in in_flight, audit_ok \in BOOLEAN :
           delete_record_step(request, audit_ok)
    \/ \E request \in in_flight, audit_ok \in BOOLEAN :
           restore_record_step(request, audit_ok)

SpecMoves == Init /\ [][NextMoves]_vars

(***************************************************************************)
(* Deletes and restores of every kind of entity.  The admin has created    *)
(* s1, p1 and p2 and creates a record and a work item; the admin, s1 and   *)
(* p1 ask for the delete and the restore of records, accounts and work     *)
(* items, present or not.                                                  *)
(***************************************************************************)
MoveUsers == {AdminToken, StaffS1, AssociateP1}

NextDeleteRestore ==
    \/ \E record \in RecordCreate :
           /\ issued.records < 1
           /\ create_record(AdminToken, record, TRUE)
    \/ \E data \in AdminWorkCreate :
           /\ issued.works < 1
           /\ create_work(AdminToken, data)
    \/ \E user \in MoveUsers, record_id \in 1..MaxRecords :
           \/ delete_record(user, record_id, TRUE)
           \/ restore_record(user, record_id, TRUE)
    \/ \E user \in MoveUsers, staff_id \in {"s1", "p1"} :
           \/ delete_staff(user, staff_id)
           \/ restore_staff(user, staff_id)
           \/ delete_project_associate(user, staff_id)
           \/ restore_project_associate(user, staff_id)
    \/ \E user \in MoveUsers, work_id \in 1..MaxWorks :
           \/ soft_delete_work(user, work_id)
           \/ restore_work(user, work_id)

SpecDeleteRestore == InitWorks /\ [][NextDeleteRestore]_vars

(***************************************************************************)
(* The TTL purge.  Over MaxDays days the admin deletes and restores a      *)
(* record, the accounts with staff_id s1 (the staff member and an          *)
(* associate created under the same staff_id once s1 is deleted) and a     *)
(* work item, while the TTL monitor purges what has expired.  A session    *)
(* is about one kind of entity: the record, the accounts or the work item. *)
(***************************************************************************)
AccountsAsCreated ==
    Len(users_collection) = 4 /\ users_deleted_collection = <<>> /\ issued.users = 3

NextPurge ==
    \/ \E record \in AdminRecordCreate :
           /\ issued.records < 1 /\ issued.works = 0 /\ AccountsAsCreated
           /\ create_record(AdminToken, record, TRUE)
    \/ \E data \in AdminWorkCreate :
           /\ issued.works < 1 /\ issued.records = 0 /\ AccountsAsCreated
           /\ create_work(AdminToken, data)
    \/ \E data \in AdminStaffCreate :
           /\ issued.users < 4 /\ issued.records = 0 /\ issued.works = 0
           /\ create_project_associate(AdminToken, data)
    \/ delete_record(AdminToken, 1, TRUE)
    \/ restore_record(AdminToken, 1, TRUE)
    \/ /\ issued.records = 0 /\ issued.works = 0
       /\ \/ delete_staff(AdminToken, "s1")
          \/ restore_staff(AdminToken, "s1")
          \/ delete_project_associate(AdminToken, "s1")
          \/ restore_project_associate(AdminToken, "s1")
    \/ soft_delete_work(AdminToken, 1)
    \/ restore_work(AdminToken, 1)
    \/ TickDay
    \/ ttl_purge

SpecPurge == InitWorks /\ [][NextPurge]_vars

(***************************************************************************)
(* The documents of two owners.  The admin creates the records of s1 and   *)
(* of s2, under pr_po_no that sanitize to the same folder name; s1 and s2   *)
(* upload a document to either record and delete documents, and the object *)
(* store takes a file or fails.                                            *)
(***************************************************************************)
StaffS2 == Token("staff", "s2")

\* the request bodies: two pr_po_no that sanitize to the same folder name
FolderRecordCreate ==
    [staff_id : {"s1", "s2"}, pr_po_no : {<<"P", "O", "/", "1">>, <<"P", "O", "_", "1">>},
     approval_rs : {2}, utilization_rs : {1}, description : {"d"}]

NextOwners ==
    \/ \E record \in FolderRecordCreate :
           /\ issued.records < MaxRecords
           /\ create_record(AdminToken, record, TRUE)
    \/ \E user \in {StaffS1, StaffS2}, record_id \in 1..MaxRecords,
          document_name \in DocumentNames, storage_ok \in BOOLEAN :
           /\ issued.documents < MaxIssued
           /\ upload_document(user, record_id, document_name, PdfFile, storage_ok)
    \/ \E user \in {StaffS1, StaffS2}, document_id \in 1..MaxIssued :
           delete_document(user, document_id)

SpecOwners == Init /\ [][NextOwners]_vars

(***************************************************************************)
(* The documents of a deleted record.  The admin creates the record of s1; *)
(* s1 and s2 upload documents to it, and s1 deletes and restores the       *)
(* record while its documents stay in document_links.                      *)
(***************************************************************************)
NextOrphans ==
    \/ \E record \in AdminRecordCreate :
           /\ issued.records < 1
           /\ create_record(AdminToken, record, TRUE)
    \/ \E user \in {StaffS1, StaffS2}, document_name \in RecordDocumentNames,
          storage_ok \in BOOLEAN :
           /\ issued.documents < MaxIssued
           /\ upload_document(user, 1, document_name, PdfFile, storage_ok)
    \/ \E document_id \in 1..MaxIssued : delete_document(StaffS1, document_id)
    \/ delete_record(StaffS1, 1, TRUE)
    \/ restore_record(StaffS1, 1, TRUE)

SpecOrphans == Init /\ [][NextOrphans]_vars

(***************************************************************************)
(* The whole service: every handler, every token and body of the services  *)
(* above, and the clock.                                                   *)
(***************************************************************************)
Next ==
    \/ NextRecords
    \/ NextAccounts
    \/ NextWorks
    \/ NextAdmin
    \/ Tick

Spec == Init /\ [][Next]_vars

(***************************************************************************)
(* Properties of the records service (SpecRecords).                        *)
(***************************************************************************)
\* C1: after create_record and after every update_record, every stored record has
\* remaining = approval_rs - utilization_rs and total = approval_rs for the
\* approval_rs and utilization_rs it stores.
C1_DerivedFields ==
    \A r \in records_collection :
        /\ r.remaining = r.approval_rs - r.utilization_rs
        /\ r.total = r.approval_rs

\* the record with this _id is stored in records_collection unchanged by the step
RecordUntouched(r) ==
    /\ r \in records_collection'
    /\ \A d \in records_deleted_collection' \ records_deleted_collection :
           d["_id"] # r["_id"]

\* C2: a staff actor whose staff_id differs from R.staff_id does not get R from
\* get_records, and its update_record and delete_record on R are rejected and leave
\* R unchanged; the admin gets R from get_records and its update_record and
\* delete_record on R succeed.
C2_RecordIsolation ==
    [][\A r \in records_collection :
          /\ \A user \in RecordUsers :
                 /\ (user.role = "staff" /\ user.staff_id # r.staff_id)
                        => r["_id"] \notin get_records(user).out
                 /\ user.role = "admin" => r["_id"] \in get_records(user).out
          /\ (resp'.op \in {"update_record", "delete_record"} /\ resp'.id = r["_id"]) =>
                 /\ (resp'.user.role = "staff" /\ resp'.user.staff_id # r.staff_id)
                        => (resp'.code = 403 /\ RecordUntouched(r))
                 /\ resp'.user.role = "admin" => resp'.code = 200
      ]_vars

\* the operations on records, record documents and accounts
ManagementOps ==
    {"create_record", "update_record", "delete_record", "restore_record",
     "upload_document", "delete_document", "create_staff", "delete_staff",
     "restore_staff", "create_project_associate", "delete_project_associate",
     "restore_project_associate"}

\* C3: every record, staff-account and associate-account management operation
\* called with role project_associate is denied and changes no state, and
\* get_records is denied to that role.
C3_AssociateDeniedManagement ==
    [][/\ \A user \in RecordUsers :
              user.role = "project_associate" => get_records(user).code = 403
       /\ (resp'.user.role = "project_associate" /\ resp'.op \in ManagementOps) =>
              /\ resp'.code = 403
              /\ UNCHANGED <<userVars, recordVars, document_links_collection>>
      ]_vars

\* restore_record has just answered 200 to the request that directly followed the
\* successful delete_record of the same record id
RecordRoundTripDone ==
    resp.op = "restore_record" /\ resp.code = 200 /\ resp.pre # <<>>

\* C5: delete_record directly followed by restore_record on the same record id
\* leaves records_collection holding, under the same _id, exactly the fields the
\* record had before the delete (none of deleted_at, deleted_by, original_id), and
\* leaves records_deleted_collection without that record.
C5_RecordRoundTrip ==
    RecordRoundTripDone =>
        /\ resp.pre[1]["_id"] = resp.id
        /\ resp.pre[1] \in records_collection
        /\ \A r \in records_collection :
               r["_id"] = resp.id =>
                   /\ r = resp.pre[1]
                   /\ DOMAIN r \cap {"deleted_at", "deleted_by", "original_id"} = {}
        /\ \A d \in records_deleted_collection :
               d["_id"] # resp.id /\ d.original_id # resp.id

\* the round trip of C5 made by the staff member who owns the record, while another
\* record stays deleted
C5_Reached ==
    /\ RecordRoundTripDone
    /\ resp.user.role = "staff"
    /\ records_deleted_collection # {}

\* C27: the record a staff actor creates is stored with the actor's own
\* staff_id, which is what makes get_records return it to that actor.
C27_StaffCreatesOwnRecord ==
    [][(resp'.op = "create_record" /\ resp'.user.role = "staff") =>
           \A r \in records_collection' \ records_collection :
               /\ r["_id"] = resp'.id =>
                      r.staff_id = resp'.user.staff_id
     ]_vars

(***************************************************************************)
(* Properties of the account service (SpecAccounts).                       *)
(***************************************************************************)
\* the account is a document of the collection
Holds(coll, account) == \E i \in 1..Len(coll) : coll[i] = account

\* no document of the collection has the account's _id
Without(coll, account) == \A i \in 1..Len(coll) : coll[i]["_id"] # account["_id"]

\* C6: delete_project_associate directly followed by restore_project_associate on
\* the same staff_id leaves in users_collection the account as it was before the
\* delete, equal in every field (is_active and assigned_staff among them, whatever
\* is_active was) and without deleted_at and deleted_by, and leaves
\* users_deleted_collection without it.
C6_AssociateRoundTrip ==
    (resp.op = "restore_project_associate" /\ resp.code = 200 /\ resp.pre # <<>>) =>
        /\ Holds(users_collection, resp.pre[1])
        /\ Without(users_deleted_collection, resp.pre[1])

\* C7: delete_staff directly followed by restore_staff on the same staff_id leaves
\* in users_collection the staff account with exactly the fields it had before the
\* delete, without deleted_at and deleted_by, and leaves users_deleted_collection
\* without it.
C7_StaffRoundTrip ==
    (resp.op = "restore_staff" /\ resp.code = 200 /\ resp.pre # <<>>) =>
        /\ Holds(users_collection, resp.pre[1])
        /\ Without(users_deleted_collection, resp.pre[1])

\* C17: create_staff and create_project_associate answer 400 (Conflict) to a
\* staff_id that an account of users_collection has and add no account, and no two
\* accounts of users_collection share a staff_id.
C17_UniqueStaffId ==
    [][/\ \A i, j \in 1..Len(users_collection') :
              i # j => users_collection'[i].staff_id # users_collection'[j].staff_id
       /\ (/\ resp'.op \in {"create_staff", "create_project_associate"}
           /\ resp'.user = AdminToken
           /\ find_one(users_collection, [staff_id |-> resp'.id]) # <<>>) =>
              /\ resp'.code = 400
              /\ UNCHANGED users_collection
     ]_vars

\* C18: exactly one account of users_collection has the role admin, and
\* admin_login does not answer 404 "Admin not found".
C18_OneAdmin ==
    /\ Cardinality(Matching(users_collection, [role |-> "admin"])) = 1
    /\ admin_login([password |-> "pw"]) # 404

\* C29: a successful restore_staff or restore_project_associate removes from
\* users_deleted_collection exactly the account it reinserted: afterwards no
\* account is in both stores and every other deleted account is still deleted.
C29_RestoreRemovesTheReinserted ==
    [][(resp'.op \in {"restore_staff", "restore_project_associate"} /\ resp'.code = 200)
           => /\ \A i \in 1..Len(users_collection') :
                     Without(users_deleted_collection', users_collection'[i])
              /\ \A i \in 1..Len(users_deleted_collection) :
                     \/ Holds(users_deleted_collection', users_deleted_collection[i])
                     \/ ~Without(users_collection', users_deleted_collection[i])
     ]_vars

\* the logins of every staff_id with the password the accounts were given
Logins == [staff_id : AccountIds, password : {"pw"}]

\* C25: the role claim of a token issued by staff_login or
\* project_associate_login is the stored role of the account whose password was
\* verified, and admin_login verifies the password of an account of role admin.
C25_TokenRoleIsStoredRole ==
    /\ \A data \in Logins :
           LET account == find_one(users_collection, [staff_id |-> data.staff_id])
           IN  /\ staff_login(data).code = 200
                      => staff_login(data).token[1].role = account[1].role
               /\ project_associate_login(data).code = 200
                      => \E i \in 1..Len(users_collection) :
                             /\ users_collection[i].staff_id = data.staff_id
                             /\ users_collection[i].role = "project_associate"
    /\ admin_login([password |-> "pw"]) = 200
           => find_one(users_collection, [role |-> "admin"])[1].role = "admin"

(***************************************************************************)
(* Properties of the work service (SpecWorks).                             *)
(***************************************************************************)
DeletionFields == {"is_deleted", "deleted_at", "deleted_by"}

\* restore_work has just answered 200 to the request that directly followed the
\* successful soft_delete_work of the same work_id
WorkRoundTripDone ==
    resp.op = "restore_work" /\ resp.code = 200 /\ resp.pre # <<>>

\* C8: soft_delete_work directly followed by restore_work on the same work_id leaves
\* the work item in work_collection with is_deleted = FALSE, without deleted_at and
\* deleted_by, and with every other field as it was before the delete; after each
\* of the two steps the work item is in work_collection.
C8_WorkRoundTrip ==
    /\ (resp.op \in {"soft_delete_work", "restore_work"} /\ resp.code = 200) =>
           Cardinality({w \in work_collection : w.work_id = resp.id}) = 1
    /\ WorkRoundTripDone =>
           \A w \in work_collection :
               w.work_id = resp.id =>
                   /\ w.is_deleted = FALSE
                   /\ DOMAIN w \cap {"deleted_at", "deleted_by"} = {}
                   /\ Pop(w, DeletionFields) = Pop(resp.pre[1], DeletionFields)

\* the round trip of C8 on a work item that had been updated and deleted before
C8_Reached ==
    /\ WorkRoundTripDone
    /\ resp.pre[1].task = "t2"
    /\ resp.pre[1].is_deleted = FALSE

\* the project associate accounts of users_collection whose assigned_staff holds staff_id
AssignedTo(staff_id) ==
    {users_collection[i] :
         i \in Matching(users_collection,
                        [role |-> "project_associate", assigned_staff |-> staff_id])}

\* C9: get_works and staff_view_works called by staff member S list a work item W
\* only if W.staff_id is the staff_id of a project associate whose assigned_staff
\* contains S.
C9_StaffListing ==
    \A w \in work_collection :
        w.work_id \in get_works(StaffS1).out \cup staff_view_works(StaffS1).out =>
            \E a \in AssignedTo(StaffS1.staff_id) : a.staff_id = w.staff_id

\* S is listed a work item of its associate while the store holds a work item of
\* an associate of another staff member
C9_Reached ==
    /\ get_works(StaffS1).out # {}
    /\ staff_view_works(StaffS1).out # {}
    /\ \E w \in work_collection : w.staff_id = "p2"

\* the associate owning the work item does not have S in assigned_staff
NotAssigned(w) == \A a \in AssignedTo(StaffS1.staff_id) : a.staff_id # w.staff_id

WorksOfOthers == {w \in work_collection : w.staff_id # AssociateP1.staff_id}

DocumentsOfOthers ==
    {d \in work_document_collection :
         \E w \in WorksOfOthers : w.work_id = d.work_id}

\* C11: a request of project associate P changes a work item W or its documents
\* only if W.staff_id is P's staff_id: update_work, update_progress,
\* add_delay_reason and upload_work_document on a work item of another associate
\* answer 403, delete_work_document on an active document of such a work item
\* answers 403, and nothing is written; soft_delete_work and restore_work never
\* answer 200 to P and write nothing; every request of P answered 403 leaves the
\* work items and work documents as they were.
C11_AssociateOwnWorkOnly ==
    /\ [][resp'.user = AssociateP1 =>
              /\ WorksOfOthers \subseteq work_collection'
              /\ DocumentsOfOthers \subseteq work_document_collection'
              /\ \A d \in work_document_collection' \ work_document_collection :
                     \A w \in WorksOfOthers : d.work_id # w.work_id
              /\ resp'.code = 403 => UNCHANGED workVars
         ]_vars
    /\ [][(/\ resp'.user = AssociateP1
           /\ resp'.op \in {"update_work", "update_progress", "add_delay_reason",
                            "upload_work_document"}) =>
              \A w \in WorksOfOthers : resp'.id = w.work_id => resp'.code = 403
         ]_vars
    /\ [][(resp'.user = AssociateP1 /\ resp'.op = "delete_work_document") =>
              \A d \in DocumentsOfOthers :
                  (resp'.id = d.document_id /\ d.status = "active") => resp'.code = 403
         ]_vars
    /\ [][(/\ resp'.user = AssociateP1
           /\ resp'.op \in {"soft_delete_work", "restore_work"}) =>
              /\ resp'.code # 200
              /\ UNCHANGED workVars
         ]_vars

\* P, who has updated a work item of its own, has just been refused update_work on
\* a work item of p2, and a deleted work item and a document of p2's work exist
C11_Reached ==
    /\ resp.user = AssociateP1
    /\ resp.op = "update_work"
    /\ resp.code = 403
    /\ \E w \in work_collection : w.staff_id = "p1" /\ w.task = "t2"
    /\ \E w \in WorksOfOthers : w.work_id = resp.id /\ w.is_deleted = TRUE
    /\ DocumentsOfOthers # {}

\* the active documents of a work item
ActiveDocumentsOf(coll, work_id) ==
    {d \in coll : d.work_id = work_id /\ d.status = "active"}

\* C28: update_work, update_progress, add_delay_reason and upload_work_document
\* on a soft-deleted work item are rejected and change neither its fields nor
\* its active documents.
C28_DeletedWorkFrozen ==
    [][\A w \in work_collection :
           (/\ w.is_deleted = TRUE
            /\ resp'.op \in {"update_work", "update_progress", "add_delay_reason",
                             "upload_work_document"}
            /\ resp'.id = w.work_id)
               => /\ resp'.code # 200
                  /\ w \in work_collection'
                  /\ ActiveDocumentsOf(work_document_collection', w.work_id)
                         = ActiveDocumentsOf(work_document_collection, w.work_id)
     ]_vars

(***************************************************************************)
(* Properties of the status of a work item (SpecStatus).                   *)
(***************************************************************************)
\* C12: calculate_status(allocated, deadline) at time now is red whenever
\* deadline <= allocated; otherwise, with total = deadline - allocated and
\* elapsed = now - allocated, it is green iff 3 * elapsed <= total, yellow iff
\* total < 3 * elapsed <= 2 * total, and red iff 3 * elapsed > 2 * total.
C12_StatusThresholds ==
    \A w \in work_collection :
        LET total == w.deadline_time[1] - w.allocated_time[1]
            elapsed == now - w.allocated_time[1]
        IN  [work_id |-> w.work_id,
             status |-> IF total <= 0 THEN "red"
                        ELSE IF 3 * elapsed <= total THEN "green"
                        ELSE IF 3 * elapsed <= 2 * total THEN "yellow"
                        ELSE "red"] \in get_works_status(AdminToken)

(***************************************************************************)
(* Properties of the documents of a record (SpecDocuments).                *)
(***************************************************************************)
\* the active documents of a record under a name
ActiveNamed(record_id, document_name) ==
    {d \in document_links_collection :
         /\ d.record_id = record_id
         /\ d.document_name = document_name
         /\ d.status = "active"}

\* C13: upload_document under the name of an active document of the same record
\* answers 400 (the Conflict answer of the handler) and adds no document;
\* delete_document leaves the document it answers 200 for with status deleted; and
\* an upload under a name that no active document of the record has, the name of
\* a deleted document included, answers 200 and adds one active document of that
\* name, unless the object store fails (500).
C13_DuplicateName ==
    /\ [][(resp'.op = "upload_document" /\ resp'.code \notin {403, 404}) =>
              IF ActiveNamed(resp'.id, resp'.pre[1]) # {}
              THEN /\ resp'.code = 400
                   /\ UNCHANGED document_links_collection
              ELSE /\ resp'.code \in {200, 500}
                   /\ resp'.code = 500 => UNCHANGED document_links_collection
                   /\ resp'.code = 200 =>
                          \E d \in document_links_collection' :
                              /\ document_links_collection' =
                                     document_links_collection \cup {d}
                              /\ d \notin document_links_collection
                              /\ d.record_id = resp'.id
                              /\ d.document_name = resp'.pre[1]
                              /\ d.status = "active"
         ]_vars
    /\ [][(resp'.op = "delete_document" /\ resp'.code = 200) =>
              \A d \in document_links_collection' :
                  d.document_id = resp'.id => d.status = "deleted"
         ]_vars

\* an upload has just been accepted under the name of a deleted document of the
\* same record, while the record has an active document of another name
C13_Reached ==
    /\ resp.op = "upload_document"
    /\ resp.code = 200
    /\ \E d \in document_links_collection :
           /\ d.record_id = resp.id
           /\ d.document_name = resp.pre[1]
           /\ d.status = "deleted"
    /\ \E d \in document_links_collection :
           d.document_name # resp.pre[1] /\ d.status = "active"

(***************************************************************************)
(* Properties of delay reasons (SpecDelay).                                *)
(***************************************************************************)
\* C14: add_delay_reason by the owning associate is rejected and leaves
\* reason_for_delay unchanged when the clock is before the work item's
\* deadline_time, and answers 200 and sets reason_for_delay when the deadline has
\* passed.
C14_DelayAfterDeadline ==
    [][(resp'.op = "add_delay_reason" /\ resp'.user = AssociateP1) =>
          \A w \in work_collection :
              (w.work_id = resp'.id /\ w.staff_id = AssociateP1.staff_id) =>
                  IF now < w.deadline_time[1]
                  THEN /\ resp'.code # 200
                       /\ UNCHANGED work_collection
                  ELSE /\ resp'.code = 200
                       /\ work_collection' =
                              set_work(w.work_id, [reason_for_delay |-> "r"])
     ]_vars

(***************************************************************************)
(* Properties of the audit trail (SpecAudit).                              *)
(***************************************************************************)
\* the record of the latest request has left records_collection for
\* records_deleted_collection (delete_record), or has come back (restore_record)
RecordMoved ==
    IF resp.op = "delete_record"
    THEN /\ \A r \in records_collection : r["_id"] # resp.id
         /\ \E d \in records_deleted_collection : d.original_id = resp.id
    ELSE /\ \E r \in records_collection : r["_id"] = resp.id
         /\ \A d \in records_deleted_collection : d.original_id # resp.id

\* C15: every delete_record and restore_record answered 200 has appended exactly
\* one audit entry, with action DELETE or RESTORE, performed_by the actor's
\* staff_id and record_id the record's id, and the record has moved; the entry
\* comes after the move, so a request whose audit write fails has moved the record
\* too; restore_staff and restore_project_associate append no audit entry.
C15_AuditOnDeleteRestore ==
    /\ (resp.op \in {"delete_record", "restore_record"} /\ resp.code = 200) =>
           /\ Len(audit_appended) = 1
           /\ audit_appended[1].action =
                  (IF resp.op = "delete_record" THEN "DELETE" ELSE "RESTORE")
           /\ audit_appended[1].performed_by = resp.user.staff_id
           /\ audit_appended[1].record_id = resp.id
           /\ RecordMoved
    /\ (resp.op \in {"delete_record", "restore_record"} /\ resp.pre # <<>>) =>
           RecordMoved
    /\ resp.op \in {"restore_staff", "restore_project_associate"} =>
           audit_appended = <<>>

\* s1 has just restored its record with an audit entry, and an account sits in
\* users_deleted_collection
C15_Reached ==
    /\ resp.op = "restore_record"
    /\ resp.code = 200
    /\ resp.user = StaffS1
    /\ Len(audit_appended) = 1
    /\ users_deleted_collection # <<>>

\* C16: when the audit write of create_record, update_record, delete_record or
\* restore_record fails (the request has written to a records store and no audit
\* entry was appended), the request still answers 200.
C16_AuditFailureTolerated ==
    [][(/\ resp'.op \in {"create_record", "update_record", "delete_record",
                         "restore_record"}
        /\ recordVars' # recordVars
        /\ audit_appended' = <<>>) => resp'.code = 200
     ]_vars

(***************************************************************************)
(* Properties of concurrent uploads (SpecUploads).                         *)
(***************************************************************************)
\* C20: under any interleaving of upload_document requests, no record has two
\* active documents with the same document_name.
C20_UniqueActiveName ==
    \A d1, d2 \in document_links_collection :
        (/\ d1.status = "active"
         /\ d2.status = "active"
         /\ d1.record_id = d2.record_id
         /\ d1.document_name = d2.document_name) => d1 = d2

(***************************************************************************)
(* Properties of concurrent moves of a record (SpecMoves).                 *)
(***************************************************************************)
\* C21: whatever the interleaving of the store steps of delete_record and
\* restore_record requests, a record that was created is in the active or in the
\* deleted store, and in exactly one of them when no request is in flight.
C21_NeverLost ==
    \A record_id \in 1..issued.records :
        LET active == \E r \in records_collection : r["_id"] = record_id
            deleted == \E r \in records_deleted_collection : r["_id"] = record_id
        IN  /\ active \/ deleted
            /\ in_flight = {} => ~(active /\ deleted)

\* a restore_record failed on its insert while a delete_record that has inserted
\* still awaits its delete_one: the record is in both stores
C21_Reached ==
    /\ resp.op = "restore_record"
    /\ resp.code = 500
    /\ \E request \in in_flight :
          request.op = "delete_record" /\ request.awaits = "delete_one"
    /\ \E r \in records_collection : r["_id"] = 1
    /\ \E r \in records_deleted_collection : r["_id"] = 1

(***************************************************************************)
(* Properties of deletes and restores (SpecDeleteRestore).                 *)
(***************************************************************************)
DeleteRestoreOps ==
    {"delete_record", "restore_record", "delete_staff", "restore_staff",
     "delete_project_associate", "restore_project_associate",
     "soft_delete_work", "restore_work"}

\* the entity the restore request resp' asks for is not among the deleted ones
NothingToRestore ==
    \/ /\ resp'.op = "restore_record"
       /\ \A r \in records_deleted_collection : r.original_id # resp'.id
    \/ /\ resp'.op = "restore_staff"
       /\ Matching(users_deleted_collection, [staff_id |-> resp'.id]) = {}
    \/ /\ resp'.op = "restore_project_associate"
       /\ Matching(users_deleted_collection, is_associate(resp'.id)) = {}
    \/ /\ resp'.op = "restore_work"
       /\ \A w \in work_collection : w.work_id = resp'.id => w.is_deleted # TRUE

\* C22: a delete or restore request answered Forbidden or NotFound changes no
\* store and appends no audit entry, and the admin's restore of an entity that
\* is not deleted is answered NotFound.
C22_RefusedMoveChangesNothing ==
    [][/\ (resp'.op \in DeleteRestoreOps /\ resp'.code \in {403, 404})
              => /\ UNCHANGED <<userVars, recordVars, document_links_collection,
                                workVars>>
                 /\ audit_appended' = <<>>
       /\ (resp'.user.role = "admin" /\ NothingToRestore) => resp'.code = 404]_vars

\* the admin asked for the restore of the work item that is active and got
\* NotFound, after s1 was refused the delete of it
C22_Reached ==
    /\ resp.op = "restore_work"
    /\ resp.user.role = "admin"
    /\ resp.code = 404
    /\ \E w \in work_collection : w.work_id = resp.id /\ w.is_deleted # TRUE
    /\ records_deleted_collection # {}
    /\ Len(users_deleted_collection) > 0

\* C23: a work item that is soft-deleted and not yet restored is in the active
\* work listing (get_works, staff_view_works) of no actor of any role, and in
\* the admin's view_deleted_works.
C23_DeletedWorkHidden ==
    \A w \in work_collection :
        w.is_deleted = TRUE =>
            /\ \A user \in MoveUsers :
                  /\ w.work_id \notin get_works(user).out
                  /\ w.work_id \notin staff_view_works(user).out
            /\ w.work_id \in view_deleted_works(AdminToken).out

(***************************************************************************)
(* Properties of the TTL purge (SpecPurge).                                *)
(***************************************************************************)
\* the account with this _id is in the collection
HasId(coll, account) == ~Without(coll, account)

\* C24: a soft-deleted record or account leaves its deleted store only when it
\* is restored to the active store or when the TTL purge removes it, 5 days or
\* more after deleted_at; after a purge it is in neither store and the restore
\* is answered NotFound; a soft-deleted work item is never removed and the
\* admin's restore of it succeeds.
C24_DeletedUntilPurge ==
    [][/\ \A r \in records_deleted_collection :
              \/ r \in records_deleted_collection'
              \/ \E a \in records_collection' : a["_id"] = r["_id"]
              \/ expired(r)
       /\ \A i \in 1..Len(users_deleted_collection) :
              \/ HasId(users_deleted_collection', users_deleted_collection[i])
              \/ HasId(users_collection', users_deleted_collection[i])
              \/ expired(users_deleted_collection[i])
       /\ (/\ resp' # resp
           /\ resp'.op = "restore_record"
           /\ \A r \in records_deleted_collection : r.original_id # resp'.id)
              => resp'.code = 404 /\ UNCHANGED recordVars
       /\ \A w \in work_collection :
              w.is_deleted = TRUE =>
                  /\ \E x \in work_collection' : x.work_id = w.work_id
                  /\ (resp' # resp /\ resp'.op = "restore_work" /\ resp'.id = w.work_id)
                         => resp'.code = 200
     ]_vars

(***************************************************************************)
(* Properties of the documents of two owners (SpecOwners).                 *)
(***************************************************************************)
\* the records whose staff_id is not the staff actor's own
RecordsOfOthers(user) == {r \in records_collection : r.staff_id # user.staff_id}

\* C26: a staff actor is refused (403) the list of the documents of a record of
\* another staff member and the delete of such a document, and the refused
\* delete leaves the document active.
C26_DocumentsOfOthersDenied ==
    [][/\ \A user \in {StaffS1, StaffS2} :
              \A r \in RecordsOfOthers(user) : list_documents(user, r["_id"]).code = 403
       /\ \A d \in document_links_collection :
              (/\ resp' # resp
               /\ resp'.op = "delete_document"
               /\ resp'.id = d.document_id
               /\ d.status = "active"
               /\ \E r \in RecordsOfOthers(resp'.user) : r["_id"] = d.record_id)
                  => resp'.code = 403 /\ d \in document_links_collection'
     ]_vars

\* C30: any two distinct active record documents have distinct file_path,
\* also across records whose pr_po_no sanitize to the same folder name.
C30_DistinctFilePaths ==
    \A d1, d2 \in document_links_collection :
        (d1 # d2 /\ d1.status = "active" /\ d2.status = "active")
            => d1.file_path # d2.file_path

(***************************************************************************)
(* Properties of the documents of a deleted record (SpecOrphans).          *)
(***************************************************************************)
\* the active documents whose record is soft-deleted
Orphans ==
    {d \in document_links_collection :
         /\ d.status = "active"
         /\ \E r \in records_deleted_collection : r.original_id = d.record_id
         /\ \A r \in records_collection : r["_id"] # d.record_id}

\* C31: while a soft-deleted record has active documents, view_document by a
\* staff actor on one of them is answered NotFound or Forbidden, and
\* upload_document to the record is answered NotFound.
C31_OrphanRequestsRefused ==
    [][\A d \in Orphans :
           /\ \A user \in {StaffS1, StaffS2} :
                  view_document(user, d.record_id, d.document_id).code \in {403, 404}
           /\ (resp' # resp /\ resp'.op = "upload_document" /\ resp'.id = d.record_id)
                  => resp'.code = 404
     ]_vars

(***************************************************************************)
(* Properties of the admin's session (SpecAdmin).                          *)
(***************************************************************************)
\* the answers the read-only handlers open to the admin give the admin now
AdminReadCodes ==
    {get_records(AdminToken).code, view_my_deleted_records(AdminToken).code,
     view_deleted_records(AdminToken).code, get_all_staff(AdminToken).code,
     view_deleted_staff(AdminToken).code, get_project_associates(AdminToken).code,
     get_associates_under_staff(AdminToken, "s1").code,
     get_associates_under_staff(AdminToken, "p1").code,
     view_document(AdminToken, 1, 1).code, list_documents(AdminToken, 1).code,
     get_works(AdminToken).code, list_work_documents(AdminToken, 1).code,
     view_deleted_works(AdminToken).code}

\* the answers of the two listings reserved to the staff role
StaffReadCodes ==
    {staff_view_works(AdminToken).code, staff_view_associates(AdminToken).code}

\* C4 (as stated): no operation answers 403 to the admin, update_progress and
\* add_delay_reason included.
C4_AdminNeverForbidden ==
    /\ resp.user = AdminToken => resp.code # 403
    /\ 403 \notin AdminReadCodes

\* C4 (as the code has it): the admin is answered 403 by the operations reserved
\* to another role and by no other operation.  update_progress and
\* add_delay_reason are reserved to project associates: update_progress answers
\* the admin 403, add_delay_reason 404 for a missing work item and 403 otherwise.
\* staff_view_works and staff_view_associates are reserved to staff and answer the
\* admin 403.  Every other operation passes the admin.
C4_AdminForbiddenOnlyWhereReserved ==
    /\ (resp.user = AdminToken /\ resp.code = 403)
           => resp.op \in {"update_progress", "add_delay_reason"}
    /\ (resp.user = AdminToken /\ resp.op = "update_progress") => resp.code = 403
    /\ (resp.user = AdminToken /\ resp.op = "add_delay_reason") =>
           resp.code = IF \E w \in work_collection : w.work_id = resp.id
                       THEN 403 ELSE 404
    /\ 403 \notin AdminReadCodes
    /\ StaffReadCodes = {403}

\* the admin has just been refused add_delay_reason on a work item it created
C4_Reached ==
    /\ resp.user = AdminToken
    /\ resp.op = "add_delay_reason"
    /\ resp.code = 403
    /\ \E w \in work_collection : w.work_id = resp.id /\ w.created_role = "admin"
====
